---- MODULE Spec2Model ----
(***************************************************************************)
(* A model of the token analysis core of rugshield-tgbot:                  *)
(*   modules/analyzer.py  TokenAnalyzer.analyze, _assess_risk,             *)
(*                        _analyze_metrics, _analyze_text_data,            *)
(*                        _fetch_token_data, _get_holder_count             *)
(*   modules/social_analyzer.py  SocialAnalyzer._determine_activity_level, *)
(*                        _analyze_twitter_sentiment                       *)
(*   modules/scam_database.py    ScamDatabase.check_token,                 *)
(*                        add_scam_report, add_suspicious_address,         *)
(*                        report_to_twitter, report_suspicious_activity,   *)
(*                        update_scam_report                               *)
(*   bot.py               MemecoinAnalyzerBot.analyze_social,              *)
(*                        button_callback, handle_message                  *)
(*                                                                         *)
(* Numbers.  The snapshot's amounts are Python numbers: a whole amount n   *)
(* is <<n>>, an amount with hundredths n.c is <<n, c>>.  The float tests   *)
(* of the code (v < m * 0.01, v / m < 0.1, ...) are computed in binary64,  *)
(* round to nearest even: when v is not exactly the percentage of m the    *)
(* rounding cannot change the outcome and the exact comparison decides;    *)
(* when it is, the product or the quotient is rounded as the hardware      *)
(* rounds it.  A value that is not a number (a JSON null read from an      *)
(* upstream payload) is None; comparing None with a number raises          *)
(* TypeError.                                                              *)
(***************************************************************************)
EXTENDS Integers, Sequences, FiniteSets, TLC

VARIABLES
    token_data,         \* the snapshot handed to the classifiers
    metrics_analysis,   \* what _analyze_metrics returned, NotRun before the call
    text_analysis,      \* what _analyze_text_data returned, NotRun before the call
    risk_assessment,    \* what _assess_risk returned, NotRun before the call
    token_address,      \* the argument of _fetch_token_data
    pc,                 \* where the call of _fetch_token_data stands
    requests,           \* the upstream endpoints queried so far, in order
    price_data,         \* price_data[token_address.lower()] of the CoinGecko answer
    token_info,         \* token_info of the CoinGecko or Etherscan answer
    branch,             \* the return statement that awaits _get_holder_count
    fetched,            \* what _fetch_token_data returned, NotRun before
    returned_by,        \* the return statement that produced fetched
    holder_call,        \* the call of _get_holder_count: its answers and its result
    total_mentions,     \* the argument of _determine_activity_level
    activity_level,     \* what _determine_activity_level returned, NoLevel before
    tweets,             \* the argument of _analyze_twitter_sentiment
    sentiment_score,    \* what _analyze_twitter_sentiment returned, NotRun before
    calls,              \* the classifier calls made on one TokenAnalyzer, in order
    scam_tokens,        \* scam_data["scam_tokens"] of the ScamDatabase instance
    suspicious_addresses, \* scam_data["suspicious_addresses"]
    db_file,            \* the content of data/scam_database.json
    now,                \* datetime.now(), as a count of the calls made
    reports_put,        \* history: per address, the last report add_scam_report put
    checked,            \* the last check_token call: its address and its reply
    coroutines,         \* the add_scam_report coroutines on the event loop
    running,            \* the coroutine the event loop is running, 0 for none
    db_calls,           \* the calls on the ScamDatabase that have returned, in order
    analysis,           \* what TokenAnalyzer.analyze returned, NotRun before
    handler,            \* where the bot's analyze_social handler stands
    sent,               \* the Telegram calls of the bot's handlers, in order
    social_calls,       \* the calls of SocialAnalyzer.analyze, in order
    pending_action,     \* context.user_data['pending_action'], NoAction if absent
    updates             \* the updates of one user the bot has handled, in order

analysis_vars == <<token_data, metrics_analysis, text_analysis, risk_assessment>>

fetch_vars ==
    <<token_address, pc, requests, price_data, token_info, branch, fetched,
      returned_by, holder_call>>

social_vars == <<total_mentions, activity_level, tweets, sentiment_score>>

call_vars == <<calls>>

store_vars == <<scam_tokens, suspicious_addresses, db_file, now>>

database_vars ==
    <<store_vars, reports_put, checked, coroutines, running, db_calls>>

bot_vars == <<analysis, handler, sent, social_calls, pending_action, updates>>

\* The variables outside one analysis of a token.
other_vars == <<social_vars, call_vars, database_vars, bot_vars>>

vars == <<analysis_vars, fetch_vars, other_vars>>

----------------------------------------------------------------------------
(* Values *)

\* Python's None: a field holds <<n>> for the number n, <<>> for None.
None == <<>>

Num(n) == <<n>>

IsNum(x) == x # None

Val(x) == x[1]

\* No result yet.
NotRun == <<>>

\* The empty dict {}.
EmptyDict == [k \in {} |-> TRUE]

\* mapping.get(key, default)
Get(mapping, key, default) ==
    IF key \in DOMAIN mapping THEN mapping[key] ELSE default

----------------------------------------------------------------------------
(* Python floats *)

\* An amount is a float of the snapshot: <<n>> is the whole number n and
\* <<n, c>> is n + c / 100, the float that json parses from "n.c".  Market
\* caps, prices and holder counts are whole numbers in every snapshot below;
\* a volume may carry hundredths.
Dec(n, c) == <<n, c>>

\* x == 0
IsZero(x) == x[1] = 0 /\ (Len(x) = 2 => x[2] = 0)

\* x > 0
IsPositive(x) == x[1] > 0 \/ (Len(x) = 2 /\ x[2] > 0)

\* The amount counted in hundredths.
Hundredths(x) == 100 * x[1] + (IF Len(x) = 2 THEN x[2] ELSE 0)

\* The one element of a set of one element.  An operator's argument is an
\* expression that is worked out wherever the operator's body names it; the
\* operators below take each bignum from a set of one element so that it is
\* worked out once.
Only(S) == CHOOSE x \in S : TRUE

\* A natural number as its digits in base 256, the lowest first; 0 is <<>>.
RECURSIVE Digits(_)
Digits(n) == IF n = 0 THEN <<>> ELSE <<n % 256>> \o Digits(n \div 256)

\* The digits without zeros at the high end.
Normalize(a0) ==
    Only({ IF \A i \in 1..Len(a) : a[i] = 0 THEN <<>>
           ELSE SubSeq(a, 1, CHOOSE n \in 1..Len(a) :
                                 a[n] # 0 /\ \A i \in (n + 1)..Len(a) : a[i] = 0)
           : a \in {a0} })

\* a + b + carry
RECURSIVE DigitsAdd(_, _, _)
DigitsAdd(a0, b0, carry0) ==
    Only({ IF Len(a) = 0 /\ Len(b) = 0
           THEN (IF carry = 0 THEN <<>> ELSE <<carry>>)
           ELSE LET x == IF Len(a) = 0 THEN 0 ELSE a[1]
                    y == IF Len(b) = 0 THEN 0 ELSE b[1]
                    s == x + y + carry
                IN  <<s % 256>> \o DigitsAdd(IF Len(a) = 0 THEN a ELSE Tail(a),
                                             IF Len(b) = 0 THEN b ELSE Tail(b),
                                             s \div 256)
           : a \in {a0}, b \in {b0}, carry \in {carry0} })

\* a * k + carry, for one digit k.
RECURSIVE DigitsTimes(_, _, _)
DigitsTimes(a0, k, carry0) ==
    Only({ IF Len(a) = 0
           THEN (IF carry = 0 THEN <<>> ELSE <<carry>>)
           ELSE LET s == a[1] * k + carry
                IN  <<s % 256>> \o DigitsTimes(Tail(a), k, s \div 256)
           : a \in {a0}, carry \in {carry0} })

\* a * b
RECURSIVE DigitsMul(_, _)
DigitsMul(a0, b0) ==
    Only({ IF Len(b) = 0 \/ Len(a) = 0 THEN <<>>
           ELSE DigitsAdd(DigitsTimes(a, b[1], 0), <<0>> \o DigitsMul(a, Tail(b)), 0)
           : a \in {a0}, b \in {b0} })

\* Quotient and remainder of a by the whole number d, 0 < d < 2^22.
DigitsDivInt(a0, d) ==
    LET RECURSIVE from(_, _)
        from(a, k) ==
            IF k > Len(a) THEN [q |-> <<>>, r |-> 0]
            ELSE Only({ LET t == 256 * up.r + a[k]
                        IN  [q |-> <<t \div d>> \o up.q, r |-> t % d]
                        : up \in {from(a, k + 1)} })
    IN  Only({ [q |-> Normalize(all.q), r |-> all.r]
               : all \in { from(a, 1) : a \in {a0} } })

\* How many binary digits the number has.
BitLength(a0) ==
    Only({ IF Len(a) = 0 THEN 0
           ELSE 8 * (Len(a) - 1)
                + CHOOSE k \in 1..8 : 2^(k - 1) <= a[Len(a)] /\ a[Len(a)] < 2^k
           : a \in {a0} })

\* The binary digit of weight 2^i.
Bit(a, i) ==
    IF i \div 8 + 1 > Len(a) THEN 0
    ELSE (a[i \div 8 + 1] \div 2^(i % 8)) % 2

\* a * 2^s
ShiftLeft(a, s) ==
    Normalize([i \in 1..(s \div 8) |-> 0] \o DigitsTimes(a, 2^(s % 8), 0))

\* a \div 2^s
ShiftRight(a, s) ==
    Only({ Normalize([i \in 1..Len(high) |->
                         high[i] \div 2^(s % 8)
                         + (IF i < Len(high)
                            THEN (high[i + 1] % 2^(s % 8)) * 2^(8 - (s % 8))
                            ELSE 0)])
           : high \in {SubSeq(a, s \div 8 + 1, Len(a))} })

\* a < b, for two numbers of as many digits.
DigitsLess(a0, b0) ==
    Only({ \E i \in 1..Len(a) :
               /\ a[i] < b[i]
               /\ \A j \in 1..Len(a) : j > i => a[j] = b[j]
           : a \in {a0}, b \in {b0} })

\* A float x >= 0 is m * 2^e with m of 53 binary digits (IEEE 754 binary64,
\* the float of CPython); 0.0 has no digit.  The amounts are far from the
\* ends of the exponent range.
FloatZero == [m |-> <<>>, e |-> 0]

\* Round for the number x of n binary digits, n > 53: the low n - 53 digits
\* are dropped and the rest goes up when they are more than a half, or a
\* half with the kept part odd.
RoundLong(x, n, e, inexact) ==
    LET drop == n - 53
        half == Bit(x, drop - 1) = 1
        rest == inexact \/ \E i \in 0..(drop - 2) : Bit(x, i) = 1
        up   == half /\ (rest \/ Bit(x, drop) = 1)
    IN  Only({ IF BitLength(m) > 53
               THEN [m |-> ShiftRight(m, 1), e |-> e + drop + 1]
               ELSE [m |-> m, e |-> e + drop]
               : m \in { IF up THEN DigitsAdd(kept, <<1>>, 0) ELSE kept
                         : kept \in {ShiftRight(x, drop)} } })

\* The float nearest to x * 2^e, ties to the even m.  inexact: x is the
\* integer part of a number that is not whole; x has then more than 54
\* binary digits.
Round(x0, e, inexact) ==
    Only({ IF BitLength(x) = 0 THEN FloatZero
           ELSE IF BitLength(x) <= 53
           THEN [m |-> ShiftLeft(x, 53 - BitLength(x)),
                 e |-> e - (53 - BitLength(x))]
           ELSE RoundLong(x, BitLength(x), e, inexact)
           : x \in {x0} })

\* float(n) of a whole number.
FromInt(n) == Round(Digits(n), 0, FALSE)

\* The float nearest to num / den: what float("n.c") and the literals 0.01,
\* 0.1 and 0.5 denote.  num / den >= 1 / 100, den <= 100.
FromRatio(num, den) ==
    Only({ Round(d.q, -64, d.r # 0)
           : d \in {DigitsDivInt(ShiftLeft(Digits(num), 64), den)} })

\* The float of an amount.
Float(x) ==
    IF Len(x) = 1 THEN FromInt(x[1]) ELSE FromRatio(Hundredths(x), 100)

\* The literal pct / 100.
Literal(pct) == FromRatio(pct, 100)

\* x * y
FloatMul(x0, y0) ==
    Only({ IF Len(x.m) = 0 \/ Len(y.m) = 0 THEN FloatZero
           ELSE Round(DigitsMul(x.m, y.m), x.e + y.e, FALSE)
           : x \in {x0}, y \in {y0} })

\* x / d for the whole number d, 0 < d < 2^22.
FloatDivInt(x0, d) ==
    Only({ IF Len(x.m) = 0 THEN FloatZero
           ELSE Only({ Round(q.q, x.e - 32, q.r # 0)
                       : q \in {DigitsDivInt(ShiftLeft(x.m, 32), d)} })
           : x \in {x0} })

\* x < y
FloatLess(x0, y0) ==
    Only({ IF Len(y.m) = 0 THEN FALSE
           ELSE IF Len(x.m) = 0 THEN TRUE
           ELSE x.e < y.e \/ (x.e = y.e /\ DigitsLess(x.m, y.m))
           : x \in {x0}, y \in {y0} })

\* The four tests below compare the amount v with pct hundredths of the whole
\* number m, for pct one of 1 (0.01), 10 (0.1), 50 (0.5).  When v and
\* m * pct / 100 differ, they differ by more than one part in 2^31, which the
\* three roundings of a test (each at most one part in 2^53) cannot reverse:
\* the floats compare as the exact numbers do.  When they are equal the
\* outcome is that of the roundings, and the floats are computed.

\* The amount of h hundredths.
FromHundredths(h) == IF h % 100 = 0 THEN Num(h \div 100) ELSE Dec(h \div 100, h % 100)

\* The outcomes of the four tests on the amount v that is exactly pct
\* hundredths of m:
\*   v < m * literal, v > m * literal, v / m < literal, v / m > literal.
Roundings(m, pct) ==
    Only({ LET product  == FloatMul(FromInt(m), literal)
               quotient == IF m = 0 THEN FloatZero ELSE FloatDivInt(v, m)
           IN  [lt       |-> FloatLess(v, product),
                gt       |-> FloatLess(product, v),
                ratio_lt |-> FloatLess(quotient, literal),
                ratio_gt |-> FloatLess(literal, quotient)]
           : v \in {Float(FromHundredths(m * pct))}, literal \in {Literal(pct)} })

\* How far around each threshold the amounts are drawn.
MaxDelta == 1

Around(t) == {t + d : d \in -MaxDelta..MaxDelta}

MarketCaps == {0, 50000, 2000000} \cup Around(100000) \cup Around(1000000)

\* Market caps whose hundredth is not a whole number: at 29, 116 and 102408
\* the quotient of the hundredth by the market cap rounds below 0.01, at 35
\* and 100004 the product of the market cap and 0.01 rounds above the
\* hundredth, at 57, 1000005 and 2000001 both do.
DecimalMarketCaps == {29, 35, 57, 116, 100004, 102408, 1000005, 2000001}

\* Roundings, worked out once for the market caps of the snapshots.
RoundingsOf ==
    [m \in MarketCaps \cup DecimalMarketCaps |-> [pct \in {1, 10, 50} |-> Roundings(m, pct)]]

Tie(m, pct) ==
    IF m \in DOMAIN RoundingsOf THEN RoundingsOf[m][pct] ELSE Roundings(m, pct)

\* v < m * (pct / 100)
LtTimes(v, m, pct) ==
    IF Hundredths(v) # m * pct
    THEN Hundredths(v) < m * pct
    ELSE Tie(m, pct).lt

\* v > m * (pct / 100)
GtTimes(v, m, pct) ==
    IF Hundredths(v) # m * pct
    THEN Hundredths(v) > m * pct
    ELSE Tie(m, pct).gt

\* v / m raises ZeroDivisionError.
DivRaises(m) == m = 0

\* (v / m) < pct / 100; the caller has made sure that m # 0.
RatioLt(v, m, pct) ==
    IF Hundredths(v) # m * pct
    THEN Hundredths(v) < m * pct
    ELSE Tie(m, pct).ratio_lt

\* (v / m) > pct / 100; the caller has made sure that m # 0.
RatioGt(v, m, pct) ==
    IF Hundredths(v) # m * pct
    THEN Hundredths(v) > m * pct
    ELSE Tie(m, pct).ratio_gt

----------------------------------------------------------------------------
(* TokenAnalyzer._assess_risk *)

\* One appended pair: risk_factors.append(f), recommendations.append(r).
Pair(f, r) == [factor |-> <<f>>, recommendation |-> <<r>>]

NoPair == [factor |-> <<>>, recommendation |-> <<>>]

\* MarketCapRisk with the second tier reaching up to 1000000 itself.
MarketCapRiskInclusive(market_cap) ==
    IF market_cap < 100000
    THEN Pair("Very low market cap", "Extreme caution required")
    ELSE IF market_cap <= 1000000
         THEN Pair("Low market cap", "High risk investment")
         ELSE NoPair

MarketCapRisk(market_cap) ==
    IF market_cap < 100000
    THEN Pair("Very low market cap", "Extreme caution required")
    ELSE IF market_cap < 1000000
         THEN Pair("Low market cap", "High risk investment")
         ELSE NoPair

VolumeRisk(volume_24h, market_cap) ==
    IF IsZero(volume_24h)
    THEN Pair("No trading volume", "Avoid trading")
    ELSE IF LtTimes(volume_24h, market_cap, 1)
         THEN Pair("Low trading volume", "Limited liquidity")
         ELSE NoPair

\* HolderRisk with the two recommendations exchanged.
HolderRiskSwapped(holders) ==
    IF holders < 100
    THEN Pair("Very few holders", "Monitor holder distribution")
    ELSE IF holders < 1000
         THEN Pair("Limited holder base", "High concentration risk")
         ELSE NoPair

HolderRisk(holders) ==
    IF holders < 100
    THEN Pair("Very few holders", "High concentration risk")
    ELSE IF holders < 1000
         THEN Pair("Limited holder base", "Monitor holder distribution")
         ELSE NoPair

\* "if volume_24h > 0 and market_cap > 0:", the guard of the first division.
LiquidityRiskGuard(volume_24h, market_cap) ==
    IsPositive(volume_24h) /\ market_cap > 0

LiquidityRisk(volume_24h, market_cap) ==
    IF LiquidityRiskGuard(volume_24h, market_cap)
    THEN IF RatioLt(volume_24h, market_cap, 1)
         THEN Pair("Low liquidity", "Check liquidity before trading")
         ELSE IF RatioLt(volume_24h, market_cap, 10)
              THEN Pair("Moderate liquidity", "Monitor liquidity changes")
              ELSE NoPair
    ELSE NoPair

\* OverallRisk with each ">=" written ">".
OverallRiskStrict(risk_score) ==
    IF risk_score > 4 THEN "extreme"
    ELSE IF risk_score > 3 THEN "high"
    ELSE IF risk_score > 2 THEN "medium"
    ELSE IF risk_score > 1 THEN "low"
    ELSE "minimal"

OverallRisk(risk_score) ==
    IF risk_score >= 4 THEN "extreme"
    ELSE IF risk_score >= 3 THEN "high"
    ELSE IF risk_score >= 2 THEN "medium"
    ELSE IF risk_score >= 1 THEN "low"
    ELSE "minimal"

\* LiquidityMetricGuard with the test of market_cap that line 399 has.
LiquidityMetricGuardWithMarketCap(volume_24h, market_cap) ==
    IsPositive(volume_24h) /\ market_cap > 0

\* "volume_24h > 0 and ...", the guard of the division in liquidity_risk.
LiquidityMetricGuard(volume_24h, market_cap) == IsPositive(volume_24h)

\* The risk_metrics dict of the returned mapping; evaluated only when the
\* division of its last entry does not raise.
RiskMetrics(market_cap, volume_24h, holders) ==
    [market_cap_risk |-> market_cap < 1000000,
     volume_risk     |-> LtTimes(volume_24h, market_cap, 1),
     holder_risk     |-> holders < 1000,
     liquidity_risk  |-> /\ LiquidityMetricGuard(volume_24h, market_cap)
                         /\ RatioLt(volume_24h, market_cap, 10)]

\* The statements of the try block that raise:
\*   None < 100000 (TypeError), None < market_cap * 0.01 (TypeError; None == 0
\*   is False and does not raise), None < 100 (TypeError), and the two
\*   divisions volume_24h / market_cap, each reached under its guard
\*   (ZeroDivisionError at market_cap = 0).
AssessRiskRaises(td) ==
    \/ td.market_cap = None
    \/ td.volume_24h = None
    \/ td.holders = None
    \/ /\ LiquidityRiskGuard(td.volume_24h, Val(td.market_cap))
       /\ DivRaises(Val(td.market_cap))
    \/ /\ LiquidityMetricGuard(td.volume_24h, Val(td.market_cap))
       /\ DivRaises(Val(td.market_cap))

\* AssessRiskError with an empty factor list.
AssessRiskErrorNoFactor ==
    [overall_risk    |-> "unknown",
     risk_factors    |-> <<>>,
     recommendations |-> <<"Unable to generate recommendations">>,
     risk_metrics    |-> EmptyDict]

\* The mapping of the except branch.
AssessRiskError ==
    [overall_risk    |-> "unknown",
     risk_factors    |-> <<"Error in risk assessment">>,
     recommendations |-> <<"Unable to generate recommendations">>,
     risk_metrics    |-> EmptyDict]

_assess_risk(td) ==
    IF AssessRiskRaises(td)
    THEN AssessRiskError
    ELSE LET market_cap == Val(td.market_cap)
             volume_24h == td.volume_24h
             holders    == Val(td.holders)
             fired      == << MarketCapRisk(market_cap),
                              VolumeRisk(volume_24h, market_cap),
                              HolderRisk(holders),
                              LiquidityRisk(volume_24h, market_cap) >>
             risk_factors    == fired[1].factor \o fired[2].factor
                                \o fired[3].factor \o fired[4].factor
             recommendations == fired[1].recommendation \o fired[2].recommendation
                                \o fired[3].recommendation \o fired[4].recommendation
         IN  [overall_risk    |-> OverallRisk(Len(risk_factors)),
              risk_factors    |-> risk_factors,
              recommendations |-> recommendations,
              risk_metrics    |-> RiskMetrics(market_cap, volume_24h, holders)]

----------------------------------------------------------------------------
(* TokenAnalyzer._analyze_metrics *)

\* PriceTrend without the test price > 0.
PriceTrendWhateverPrice(price, market_cap, volume_24h) ==
    IF GtTimes(volume_24h, market_cap, 10) THEN "bullish"
    ELSE IF LtTimes(volume_24h, market_cap, 1) THEN "bearish"
    ELSE "neutral"

PriceTrend(price, market_cap, volume_24h) ==
    IF price > 0
    THEN IF GtTimes(volume_24h, market_cap, 10) THEN "bullish"
         ELSE IF LtTimes(volume_24h, market_cap, 1) THEN "bearish"
         ELSE "neutral"
    ELSE "neutral"

VolumeAnalysis(market_cap, volume_24h) ==
    IF IsPositive(volume_24h)
    THEN IF GtTimes(volume_24h, market_cap, 50) THEN "high"
         ELSE IF GtTimes(volume_24h, market_cap, 10) THEN "medium"
         ELSE "low"
    ELSE "low"

HolderDistribution(holders) ==
    IF holders > 0
    THEN IF holders > 10000 THEN "distributed"
         ELSE IF holders > 1000 THEN "moderate"
         ELSE "concentrated"
    ELSE "concentrated"

\* LiquidityAnalysisGuard without its test of market_cap.
LiquidityAnalysisUnguarded(market_cap, volume_24h) == IsPositive(volume_24h)

\* "if market_cap > 0 and volume_24h > 0:", the guard of the division.
LiquidityAnalysisGuard(market_cap, volume_24h) ==
    market_cap > 0 /\ IsPositive(volume_24h)

LiquidityAnalysis(market_cap, volume_24h) ==
    IF LiquidityAnalysisGuard(market_cap, volume_24h)
    THEN IF RatioGt(volume_24h, market_cap, 50) THEN "high"
         ELSE IF RatioGt(volume_24h, market_cap, 10) THEN "medium"
         ELSE "insufficient"
    ELSE "insufficient"

\* Every comparison of the try block has a number on its right; a None on its
\* left raises TypeError, and so does None * 0.1.  With price = 0 and
\* volume_24h = 0 a None market_cap is first met by "market_cap > 0".  The
\* division is reached under its guard.
AnalyzeMetricsRaises(td) ==
    \/ td.price = None
    \/ td.volume_24h = None
    \/ td.holders = None
    \/ td.market_cap = None
    \/ /\ LiquidityAnalysisGuard(Val(td.market_cap), td.volume_24h)
       /\ DivRaises(Val(td.market_cap))

AnalyzeMetricsError ==
    [price_trend         |-> "unknown",
     volume_analysis     |-> "unknown",
     holder_distribution |-> "unknown",
     liquidity_analysis  |-> "unknown",
     raw_metrics         |-> EmptyDict]

_analyze_metrics(td) ==
    IF AnalyzeMetricsRaises(td)
    THEN AnalyzeMetricsError
    ELSE LET price      == Val(td.price)
             market_cap == Val(td.market_cap)
             volume_24h == td.volume_24h
             holders    == Val(td.holders)
         IN  [price_trend         |-> PriceTrend(price, market_cap, volume_24h),
              volume_analysis     |-> VolumeAnalysis(market_cap, volume_24h),
              holder_distribution |-> HolderDistribution(holders),
              liquidity_analysis  |-> LiquidityAnalysis(market_cap, volume_24h),
              raw_metrics         |-> [price      |-> price,
                                       market_cap |-> market_cap,
                                       volume_24h |-> volume_24h,
                                       holders    |-> holders]]

----------------------------------------------------------------------------
(* Strings: a Python str is the sequence of its characters *)

UpperCaseLetters ==
    <<"A","B","C","D","E","F","G","H","I","J","K","L","M","N","O","P","Q","R","S","T","U","V","W","X","Y","Z">>

LowerCaseLetters ==
    <<"a","b","c","d","e","f","g","h","i","j","k","l","m","n","o","p","q","r","s","t","u","v","w","x","y","z">>

\* Each upper-case letter's lower-case letter.
ToLower ==
    [c \in {UpperCaseLetters[i] : i \in DOMAIN UpperCaseLetters} |->
        LowerCaseLetters[CHOOSE i \in DOMAIN UpperCaseLetters : UpperCaseLetters[i] = c]]

\* Each lower-case letter's upper-case letter.
ToUpper ==
    [c \in {LowerCaseLetters[i] : i \in DOMAIN LowerCaseLetters} |->
        UpperCaseLetters[CHOOSE i \in DOMAIN LowerCaseLetters : LowerCaseLetters[i] = c]]

\* str.lower() on one character.
LowerChar(c) == IF c \in DOMAIN ToLower THEN ToLower[c] ELSE c

\* str.lower()
StrLower(s) == [i \in 1..Len(s) |-> LowerChar(s[i])]

\* UpperChar, had upper() left the character as it is.
UnchangedChar(c) == c

\* str.upper() on one character.
UpperChar(c) == IF c \in DOMAIN ToUpper THEN ToUpper[c] ELSE c

\* str.upper()
StrUpper(s) == [i \in 1..Len(s) |-> UpperChar(s[i])]

\* s[:n]
Prefix(s, n) == SubSeq(s, 1, IF Len(s) < n THEN Len(s) ELSE n)

\* "No description available"
NoDescriptionAvailable ==
    <<"N","o"," ","d","e","s","c","r","i","p","t","i","o","n"," ","a","v","a",
      "i","l","a","b","l","e">>

\* term in s, for a non-empty term.
Contains(term, s) ==
    \E i \in 1..(Len(s) - Len(term) + 1) :
        /\ s[i] = term[1]
        /\ SubSeq(s, i, i + Len(term) - 1) = term

\* sum(1 for word in words if word in s)
CountPresent(words, s) ==
    Cardinality({i \in DOMAIN words : Contains(words[i], s)})

\* any(term in s for term in terms)
AnyPresent(terms, s) == \E i \in DOMAIN terms : Contains(terms[i], s)

----------------------------------------------------------------------------
(* Scores: a float score is the fraction <<numerator, denominator>> *)

Frac(n, d) == <<n, d>>

FracAdd(a, b) == <<a[1] * b[2] + b[1] * a[2], a[2] * b[2]>>

FracDivInt(a, k) == <<a[1], a[2] * k>>

\* min(a, 1.0)
FracMinOne(a) == IF a[1] < a[2] THEN a ELSE Frac(1, 1)

FracEq(a, b) == a[1] * b[2] = b[1] * a[2]

FracLeq(a, b) == a[1] * b[2] <= b[1] * a[2]

----------------------------------------------------------------------------
(* TokenAnalyzer._analyze_text_data *)

positive_words ==
    << <<"s","e","c","u","r","e">>,
       <<"s","a","f","e">>,
       <<"t","r","u","s","t","e","d">>,
       <<"v","e","r","i","f","i","e","d">>,
       <<"a","u","d","i","t","e","d">>,
       <<"r","e","l","i","a","b","l","e">> >>

negative_words ==
    << <<"s","c","a","m">>,
       <<"f","a","k","e">>,
       <<"s","u","s","p","i","c","i","o","u","s">>,
       <<"u","n","v","e","r","i","f","i","e","d">>,
       <<"r","i","s","k","y">>,
       <<"w","a","r","n","i","n","g">> >>

technical_terms ==
    << <<"s","m","a","r","t"," ","c","o","n","t","r","a","c","t">>,
       <<"b","l","o","c","k","c","h","a","i","n">>,
       <<"t","o","k","e","n","o","m","i","c","s">>,
       <<"l","i","q","u","i","d","i","t","y">>,
       <<"a","u","d","i","t">> >>

warning_terms ==
    << <<"g","u","a","r","a","n","t","e","e","d">>,
       <<"1","0","0","x">>,
       <<"m","o","o","n">>,
       <<"g","e","t"," ","r","i","c","h">>,
       <<"q","u","i","c","k"," ","p","r","o","f","i","t">> >>

\* The number of occurrences of the terms in the (lower-cased) description, a
\* term that occurs k times counting k.
TermOccurrences(terms, lowered) ==
    Cardinality({p \in (DOMAIN terms) \X (1..Len(lowered)) :
                    /\ lowered[p[2]] = terms[p[1]][1]
                    /\ p[2] + Len(terms[p[1]]) - 1 <= Len(lowered)
                    /\ SubSeq(lowered, p[2], p[2] + Len(terms[p[1]]) - 1) = terms[p[1]]})

\* The label of a positive count against a negative count.
LabelOf(positive, negative) ==
    IF positive > negative THEN "positive"
    ELSE IF negative > positive THEN "negative"
    ELSE "neutral"

\* _analyze_text_data's sentiment, had it counted every occurrence of a word.
SentimentByOccurrences(description) ==
    LET lowered == StrLower(description)
    IN  LabelOf(TermOccurrences(positive_words, lowered),
                TermOccurrences(negative_words, lowered))

Sentiment(description) ==
    IF description # <<>>
    THEN LET description_lower == StrLower(description)
             positive_count == CountPresent(positive_words, description_lower)
             negative_count == CountPresent(negative_words, description_lower)
         IN  IF positive_count > negative_count THEN "positive"
             ELSE IF negative_count > positive_count THEN "negative"
             ELSE "neutral"
    ELSE "neutral"

\* CredibilityScore without the min(..., 1.0) of length_score.
CredibilityScoreUnclamped(description) ==
    IF description # <<>>
    THEN LET description_lower == StrLower(description)
             length_score    == Frac(Len(description), 500)
             technical_score == Frac(CountPresent(technical_terms, description_lower),
                                     Len(technical_terms))
             warning_score   == Frac(Len(warning_terms)
                                       - CountPresent(warning_terms, description_lower),
                                     Len(warning_terms))
         IN  FracDivInt(FracAdd(FracAdd(length_score, technical_score), warning_score), 3)
    ELSE Frac(1, 2)

CredibilityScore(description) ==
    IF description # <<>>
    THEN LET description_lower == StrLower(description)
             length_score    == FracMinOne(Frac(Len(description), 500))
             technical_score == Frac(CountPresent(technical_terms, description_lower),
                                     Len(technical_terms))
             warning_score   == Frac(Len(warning_terms)
                                       - CountPresent(warning_terms, description_lower),
                                     Len(warning_terms))
         IN  FracDivInt(FracAdd(FracAdd(length_score, technical_score), warning_score), 3)
    ELSE Frac(1, 2)

SocialMediaPresence(holders) ==
    IF holders > 1000 THEN "high"
    ELSE IF holders > 100 THEN "medium"
    ELSE "low"

CommunityEngagement(volume_24h, market_cap) ==
    IF GtTimes(volume_24h, market_cap, 10) THEN "active"
    ELSE IF GtTimes(volume_24h, market_cap, 1) THEN "moderate"
    ELSE "minimal"

\* The statements of the try block that raise: the comparisons of a None
\* holders, volume_24h or market_cap (TypeError), and the return statement's
\* any(... for term in technical_terms), which reads technical_terms and
\* description_lower: both are assigned only under "if description:", so with
\* an empty description the read raises UnboundLocalError.
AnalyzeTextRaises(td) ==
    \/ td.holders = None
    \/ td.volume_24h = None
    \/ td.market_cap = None
    \/ td.description = <<>>

\* The mapping of the except branch.
AnalyzeTextError ==
    [sentiment             |-> "neutral",
     credibility_score     |-> Frac(1, 2),
     social_media_presence |-> "low",
     community_engagement  |-> "minimal",
     description_analysis  |-> EmptyDict]

_analyze_text_data(td) ==
    IF AnalyzeTextRaises(td)
    THEN AnalyzeTextError
    ELSE LET description == td.description
             description_lower == StrLower(description)
         IN  [sentiment             |-> Sentiment(description),
              credibility_score     |-> CredibilityScore(description),
              social_media_presence |-> SocialMediaPresence(Val(td.holders)),
              community_engagement  |->
                  CommunityEngagement(td.volume_24h, Val(td.market_cap)),
              description_analysis  |->
                  [length              |-> Len(description),
                   has_technical_terms |-> AnyPresent(technical_terms, description_lower),
                   has_warning_signs   |-> AnyPresent(warning_terms, description_lower)]]

----------------------------------------------------------------------------
(* The snapshots the classifiers are run on *)

VolumesFor(m) ==
    {v \in {0, 1, 1200000} \cup Around(m \div 100) \cup Around(m \div 10)
           \cup Around(m \div 2) : v >= 0}

HolderCounts ==
    {0, 50, 15000} \cup Around(100) \cup Around(1000) \cup Around(10000)

Prices == {0, 1}

Snapshot(p, m, v, h, d) ==
    [price |-> p, market_cap |-> m, volume_24h |-> v, holders |-> h,
     description |-> d]

Phrases ==
    { <<"S","a","f","e">>,
      <<"S","C","A","M">>,
      <<"u","n","v","e","r","i","f","i","e","d">>,
      <<"a","u","d","i","t","e","d">>,
      <<"r","i","s","k","y"," ","m","o","o","n">>,
      <<"s","m","a","r","t"," ","c","o","n","t","r","a","c","t"," ","b","l","o","c","k","c","h","a","i","n"," ","t","o","k","e","n","o","m","i","c","s"," ","l","i","q","u","i","d","i","t","y"," ","a","u","d","i","t">>,
      <<"g","u","a","r","a","n","t","e","e","d"," ","1","0","0","x"," ","m","o","o","n"," ","g","e","t"," ","r","i","c","h"," ","q","u","i","c","k"," ","p","r","o","f","i","t">>,
      <<"N","o"," ","d","e","s","c","r","i","p","t","i","o","n"," ","a","v","a","i","l","a","b","l","e">>,
      <<"f","a","k","e"," ","f","a","k","e">> }

NumericSnapshots ==
    UNION {{Snapshot(Num(p), Num(m), Num(v), Num(h), NoDescriptionAvailable) :
                p \in Prices, v \in VolumesFor(m), h \in HolderCounts} :
           m \in MarketCaps}

\* Snapshots whose volume is 1, 10 or 50 hundredths of the market cap, or one
\* cent away from it.
DecimalVolumesFor(m) ==
    {FromHundredths(h) : h \in {m - 1, m, m + 1, 10 * m - 1, 10 * m, 10 * m + 1, 50 * m}}

DecimalSnapshots ==
    UNION {{Snapshot(Num(p), Num(m), v, Num(h), NoDescriptionAvailable) :
                p \in Prices, v \in DecimalVolumesFor(m), h \in {50, 500, 5000}} :
           m \in DecimalMarketCaps}

\* Snapshots with one field None, the others drawn from a few numbers.
NullSnapshots ==
    LET few == {Snapshot(Num(p), Num(m), Num(v), Num(h), NoDescriptionAvailable) :
                    p \in Prices, m \in {0, 2000000}, v \in {0, 1200000}, h \in {0, 15000}}
    IN  UNION {{[s EXCEPT !.price = None], [s EXCEPT !.market_cap = None],
                [s EXCEPT !.volume_24h = None], [s EXCEPT !.holders = None]} :
               s \in few}

TokenSnapshots == NumericSnapshots \cup NullSnapshots

\* How many phrases a description is made of.
MaxPhrases == 2

\* " ".join(ps)
RECURSIVE Join(_)
Join(ps) ==
    IF Len(ps) = 0 THEN <<>>
    ELSE IF Len(ps) = 1 THEN ps[1]
    ELSE ps[1] \o <<" ">> \o Join(Tail(ps))

PhraseSeqs(n) == UNION {[1..k -> Phrases] : k \in 1..n}

Filler(n) == [i \in 1..n |-> "x"]

\* The empty description, the joins of up to MaxPhrases phrases, and single
\* phrases followed by filler up to lengths below and above 500 characters.
Descriptions ==
    {<<>>}
    \cup {Join(ps) : ps \in PhraseSeqs(MaxPhrases)}
    \cup {p \o <<" ">> \o Filler(n) : p \in Phrases, n \in {450, 500}}

\* The amounts _analyze_text_data reads beside the description: market cap,
\* volume, holders.
TextAmounts ==
    {<<Num(0), Num(0), Num(50)>>,
     <<Num(1000000), Num(5000), Num(100)>>,
     <<Num(1000000), Num(50000), Num(101)>>,
     <<Num(1000000), Num(150000), Num(1000)>>,
     <<Num(2000000), Num(1200000), Num(1001)>>,
     <<Num(0), Num(0), None>>}

TextSnapshots ==
    {Snapshot(Num(1), a[1], a[2], a[3], d) : a \in TextAmounts, d \in Descriptions}

----------------------------------------------------------------------------
(* TokenAnalyzer._fetch_token_data, _get_holder_count,                     *)
(* _get_holder_count_alternative                                           *)

\* "0xdAC17F958D2ee523a2206206994597C13D831ec7"
ChecksumAddress ==
    <<"0","x","d","A","C","1","7","F","9","5","8","D","2","e","e","5","2","3",
      "a","2","2","0","6","2","0","6","9","9","4","5","9","7","C","1","3","D",
      "8","3","1","e","c","7">>

\* "0xdac17f958d2ee523a2206206994597c13d831ec7"
LowerCaseAddress ==
    <<"0","x","d","a","c","1","7","f","9","5","8","d","2","e","e","5","2","3",
      "a","2","2","0","6","2","0","6","9","9","4","5","9","7","c","1","3","d",
      "8","3","1","e","c","7">>

\* "0xDAC17F958D2ee523a2206206994597C13D831ec7"
BadChecksumAddress ==
    <<"0","x","D","A","C","1","7","F","9","5","8","D","2","e","e","5","2","3",
      "a","2","2","0","6","2","0","6","9","9","4","5","9","7","C","1","3","D",
      "8","3","1","e","c","7">>

\* "0xABCDEF123456"
ShortAddress ==
    <<"0","x","A","B","C","D","E","F","1","2","3","4","5","6">>

\* "0xAb"
TinyAddress ==
    <<"0","x","A","b">>

\* "0x0000000000000000000000000000000000000000"
ZeroAddress ==
    <<"0","x","0","0","0","0","0","0","0","0","0","0","0","0","0","0","0","0",
      "0","0","0","0","0","0","0","0","0","0","0","0","0","0","0","0","0","0",
      "0","0","0","0","0","0">>

\* "0x1111111111111111111111111111111111111111"
HolderOne ==
    <<"0","x","1","1","1","1","1","1","1","1","1","1","1","1","1","1","1","1",
      "1","1","1","1","1","1","1","1","1","1","1","1","1","1","1","1","1","1",
      "1","1","1","1","1","1">>

\* "0xab5801a7d398351b8be11c439e05c5b3259aec9b"
HolderTwo ==
    <<"0","x","a","b","5","8","0","1","a","7","d","3","9","8","3","5","1","b",
      "8","b","e","1","1","c","4","3","9","e","0","5","c","5","b","3","2","5",
      "9","a","e","c","9","b">>

\* "0xAb5801a7D398351b8bE11C439e05C5B3259aeC9B"
HolderTwoChecksum ==
    <<"0","x","A","b","5","8","0","1","a","7","D","3","9","8","3","5","1","b",
      "8","b","E","1","1","C","4","3","9","e","0","5","C","5","B","3","2","5",
      "9","a","e","C","9","B">>

\* "Error fetching data: "
ErrorFetchingData ==
    <<"E","r","r","o","r"," ","f","e","t","c","h","i","n","g"," ","d","a","t",
      "a",":"," ">>

\* "Invalid token address"
InvalidTokenAddress ==
    <<"I","n","v","a","l","i","d"," ","t","o","k","e","n"," ","a","d","d","r",
      "e","s","s">>

\* "Token "
TokenPrefix ==
    <<"T","o","k","e","n"," ">>

\* "A safe audited token"
UpstreamDescription ==
    <<"A"," ","s","a","f","e"," ","a","u","d","i","t","e","d"," ","t","o","k",
      "e","n">>

\* "usdt"
UpstreamSymbol ==
    <<"u","s","d","t">>

\* "Tether"
UpstreamName ==
    <<"T","e","t","h","e","r">>

\* "web3.py only accepts checksum addresses"
ContractError ==
    <<"w","e","b","3",".","p","y"," ","o","n","l","y"," ","a","c","c","e","p",
      "t","s"," ","c","h","e","c","k","s","u","m"," ","a","d","d","r","e","s",
      "s","e","s">>

\* "Cannot connect to host"
RequestError ==
    <<"C","a","n","n","o","t"," ","c","o","n","n","e","c","t"," ","t","o"," ",
      "h","o","s","t">>

\* "malformed payload"
PayloadError ==
    <<"m","a","l","f","o","r","m","e","d"," ","p","a","y","l","o","a","d">>

HexDigits ==
    {"0","1","2","3","4","5","6","7","8","9","a","b","c","d","e","f"}

\* The address without its 0x prefix.
Unprefixed(a) ==
    IF Len(a) >= 2 /\ a[1] = "0" /\ a[2] \in {"x", "X"}
    THEN SubSeq(a, 3, Len(a))
    ELSE a

\* Forty hexadecimal digits, with or without the prefix.
IsHexAddress(a) ==
    /\ Len(Unprefixed(a)) = 40
    /\ \A i \in 1..40 : LowerChar(Unprefixed(a)[i]) \in HexDigits

\* The addresses of the model that carry a valid EIP-55 checksum.
ChecksumAddresses == {ChecksumAddress, HolderTwoChecksum}

\* IsAddress without the test of the letters' case.
IsAddressWhateverCase(a) ==
    /\ Len(Unprefixed(a)) = 40
    /\ \A i \in 1..40 : LowerChar(Unprefixed(a)[i]) \in HexDigits

\* self.w3.is_address(token_address): a hex address that is all lower case,
\* all upper case, or correctly checksummed.
IsAddress(a) ==
    /\ IsHexAddress(a)
    /\ \/ Unprefixed(a) = StrLower(Unprefixed(a))
       \/ Unprefixed(a) = StrUpper(Unprefixed(a))
       \/ a \in ChecksumAddresses

\* self.w3.eth.contract(address=token_address, abi=[]) can raise: web3
\* refuses an address that is not checksummed.
ContractCanRaise(a) == a \notin ChecksumAddresses

\* FallbackSnapshot with a thousand holders.
FallbackSnapshotWithHolders(address) ==
    [price       |-> Num(0),
     market_cap  |-> Num(0),
     volume_24h  |-> Num(0),
     holders     |-> Num(1000),
     description |-> NoDescriptionAvailable,
     symbol      |-> StrUpper(Prefix(address, 6)),
     name        |-> TokenPrefix \o Prefix(address, 6)]

\* The fallback at the end of the try block.
FallbackSnapshot(address) ==
    [price       |-> Num(0),
     market_cap  |-> Num(0),
     volume_24h  |-> Num(0),
     holders     |-> Num(0),
     description |-> NoDescriptionAvailable,
     symbol      |-> StrUpper(Prefix(address, 6)),
     name        |-> TokenPrefix \o Prefix(address, 6)]

\* ErrorSnapshot without its symbol and name.
ErrorSnapshotNumbersOnly(address, message) ==
    [price       |-> Num(0),
     market_cap  |-> Num(0),
     volume_24h  |-> Num(0),
     holders     |-> Num(0),
     description |-> ErrorFetchingData \o message]

\* The mapping of the except branch; message is str(e).
ErrorSnapshot(address, message) ==
    [price       |-> Num(0),
     market_cap  |-> Num(0),
     volume_24h  |-> Num(0),
     holders     |-> Num(0),
     description |-> ErrorFetchingData \o message,
     symbol      |-> StrUpper(Prefix(address, 6)),
     name        |-> TokenPrefix \o Prefix(address, 6)]

\* The mapping returned with CoinGecko's data.
CoinGeckoSnapshot(entry, info, holder_count) ==
    [price       |-> entry.usd,
     market_cap  |-> entry.usd_market_cap,
     volume_24h  |-> entry.usd_24h_vol,
     holders     |-> Num(holder_count),
     description |-> info.description,
     symbol      |-> StrUpper(info.symbol),
     name        |-> info.name]

\* The mapping returned with Etherscan's tokeninfo.
EtherscanSnapshot(info, holder_count) ==
    [price       |-> Num(0),
     market_cap  |-> Num(0),
     volume_24h  |-> Num(0),
     holders     |-> Num(holder_count),
     description |-> info.description,
     symbol      |-> StrUpper(info.symbol),
     name        |-> info.name]

\* price_data[token_address.lower()] after its three .get(key, 0.0): an amount
\* the answer gives, 0 for a missing key, None for a JSON null.
PriceEntries ==
    {[usd |-> Num(1), usd_market_cap |-> Num(2000000), usd_24h_vol |-> Num(1200000)],
     [usd |-> Num(1), usd_market_cap |-> Num(50000), usd_24h_vol |-> Num(0)],
     [usd |-> Num(1), usd_market_cap |-> Num(0), usd_24h_vol |-> Num(5)],
     [usd |-> Num(0), usd_market_cap |-> Num(0), usd_24h_vol |-> Num(0)],
     [usd |-> Num(1), usd_market_cap |-> None, usd_24h_vol |-> Num(0)]}

\* token_info after its .get(key, default): the fields of the answer, the
\* defaults of missing keys, or fields of the wrong type (fields_ok FALSE),
\* on which .get or .upper raises.
TokenInfos ==
    {[description |-> UpstreamDescription, symbol |-> UpstreamSymbol,
      name |-> UpstreamName, fields_ok |-> TRUE],
     [description |-> <<>>, symbol |-> UpstreamSymbol,
      name |-> UpstreamName, fields_ok |-> TRUE],
     [description |-> NoDescriptionAvailable, symbol |-> <<>>,
      name |-> <<>>, fields_ok |-> TRUE],
     [description |-> NoDescriptionAvailable, symbol |-> <<>>,
      name |-> <<>>, fields_ok |-> FALSE]}

\* int(data["result"][0]["TokenHolderCount"])
HolderCountAnswers == {0, 50, 15000}

\* How many transfers a tokentx answer lists.
MaxTransfers == 2

\* The transfers a tokentx answer is made of.
TransfersOf(address) ==
    {[from |-> ZeroAddress, to |-> HolderOne],
     [from |-> HolderOne, to |-> HolderTwoChecksum],
     [from |-> HolderTwo, to |-> StrLower(address)],
     [from |-> address, to |-> HolderOne]}

TransferLists(address) ==
    UNION {[1..k -> TransfersOf(address)] : k \in 0..MaxTransfers}

\* UniqueHolders without the .lower() of the participants.
UniqueHoldersCaseSensitive(result, address) ==
    Cardinality(({result[i].from : i \in DOMAIN result}
                 \cup {result[i].to : i \in DOMAIN result})
                \ {ZeroAddress, StrLower(address)})

\* len(unique_addresses) after the two discards.
UniqueHolders(result, address) ==
    Cardinality(({StrLower(result[i].from) : i \in DOMAIN result}
                 \cup {StrLower(result[i].to) : i \in DOMAIN result})
                \ {ZeroAddress, StrLower(address)})

\* No call of _get_holder_count yet: neither request answered, no list of
\* transfers, nothing returned.
NoHolderCount ==
    [direct |-> "none", answer |-> -1, sampled |-> "none", result |-> <<>>,
     returned |-> -1]

\* A return statement of _fetch_token_data.
Return(snapshot, by) ==
    /\ fetched' = snapshot
    /\ returned_by' = by
    /\ pc' = "done"

\* An exception inside the try block: the except branch returns.
Raise(message) == Return(ErrorSnapshot(token_address, message), "except")

\* _get_holder_count has returned holder_count: the rest of the dict display
\* is evaluated and returned.
ReturnFromSource(holder_count) ==
    IF ~ token_info.fields_ok
    THEN Raise(PayloadError)
    ELSE IF branch = "coingecko"
         THEN Return(CoinGeckoSnapshot(price_data, token_info, holder_count),
                     "coingecko")
         ELSE Return(EtherscanSnapshot(token_info, holder_count), "etherscan")

\* The address check and the contract object.
Validate ==
    /\ pc = "validate"
    /\ \/ /\ ~ IsAddress(token_address)
          /\ Raise(InvalidTokenAddress)
       \/ /\ IsAddress(token_address)
          /\ ContractCanRaise(token_address)
          /\ Raise(ContractError)
       \/ /\ IsAddress(token_address)
          /\ pc' = "price"
          /\ UNCHANGED <<fetched, returned_by>>
    /\ UNCHANGED <<token_address, requests, price_data, token_info, branch>>
    /\ UNCHANGED holder_call
    /\ UNCHANGED analysis_vars
    /\ UNCHANGED other_vars

\* session.get(coingecko_url) and what follows up to the next request.
QueryPrice ==
    /\ pc = "price"
    /\ requests' = Append(requests, "coingecko/simple/token_price")
    /\ \/ \* the request raises (timeout, no connection)
          /\ Raise(RequestError)
          /\ UNCHANGED price_data
       \/ \* status 200 and a body for which response.json() raises
          /\ Raise(PayloadError)
          /\ UNCHANGED price_data
       \/ \* a status other than 200, or the address is not in price_data
          /\ pc' = "tokeninfo"
          /\ UNCHANGED <<price_data, fetched, returned_by>>
       \/ \* status 200 and the address is in price_data
          /\ \E entry \in PriceEntries : price_data' = entry
          /\ pc' = "info"
          /\ UNCHANGED <<fetched, returned_by>>
    /\ UNCHANGED <<token_address, token_info, branch>>
    /\ UNCHANGED holder_call
    /\ UNCHANGED analysis_vars
    /\ UNCHANGED other_vars

\* session.get(token_info_url) and what follows up to the next request.
QueryInfo ==
    /\ pc = "info"
    /\ requests' = Append(requests, "coingecko/coins/contract")
    /\ \/ /\ Raise(RequestError)
          /\ UNCHANGED <<token_info, branch>>
       \/ /\ Raise(PayloadError)
          /\ UNCHANGED <<token_info, branch>>
       \/ \* a status other than 200
          /\ pc' = "tokeninfo"
          /\ UNCHANGED <<token_info, branch, fetched, returned_by>>
       \/ \* status 200: the dict display starts, and awaits _get_holder_count
          /\ \E info \in TokenInfos : token_info' = info
          /\ branch' = "coingecko"
          /\ pc' = "holders"
          /\ UNCHANGED <<fetched, returned_by>>
    /\ UNCHANGED <<token_address, price_data>>
    /\ UNCHANGED holder_call
    /\ UNCHANGED analysis_vars
    /\ UNCHANGED other_vars

\* session.get(etherscan_url, action=tokeninfo) and what follows.
QueryTokenInfo ==
    /\ pc = "tokeninfo"
    /\ requests' = Append(requests, "etherscan/tokeninfo")
    /\ \/ /\ Raise(RequestError)
          /\ UNCHANGED <<token_info, branch>>
       \/ \* response.json() raises, or data has no "status", "message", "result"
          /\ Raise(PayloadError)
          /\ UNCHANGED <<token_info, branch>>
       \/ \* a status other than 200, or an answer that is not "1"/"OK"
          /\ Return(FallbackSnapshot(token_address), "fallback")
          /\ UNCHANGED <<token_info, branch>>
       \/ \* "1"/"OK": the dict display starts, and awaits _get_holder_count
          /\ \E info \in TokenInfos : token_info' = info
          /\ branch' = "etherscan"
          /\ pc' = "holders"
          /\ UNCHANGED <<fetched, returned_by>>
    /\ UNCHANGED <<token_address, price_data>>
    /\ UNCHANGED holder_call
    /\ UNCHANGED analysis_vars
    /\ UNCHANGED other_vars

\* _get_holder_count: the tokenholderlist request.
HolderCountDirect ==
    /\ pc = "holders"
    /\ requests' = Append(requests, "etherscan/tokenholderlist")
    /\ \/ \* "1"/"OK": the count of the answer is returned
          \E n \in HolderCountAnswers :
              /\ holder_call' = [holder_call EXCEPT !.direct = "ok",
                                                      !.answer = n,
                                                      !.returned = n]
              /\ ReturnFromSource(n)
       \/ \* the request or the answer's parsing raises, a status other than
          \* 200, or an answer that is not "1"/"OK"
          /\ holder_call' = [holder_call EXCEPT !.direct = "failed"]
          /\ pc' = "holders_alternative"
          /\ UNCHANGED <<fetched, returned_by>>
    /\ UNCHANGED <<token_address, price_data, token_info, branch>>
    /\ UNCHANGED analysis_vars
    /\ UNCHANGED other_vars

\* _get_holder_count_alternative: the tokentx request.
HolderCountAlternative ==
    /\ pc = "holders_alternative"
    /\ requests' = Append(requests, "etherscan/tokentx")
    /\ \/ \* "1"/"OK": the participants of the listed transfers are counted
          \E result \in TransferLists(token_address) :
              /\ holder_call' =
                     [holder_call EXCEPT !.sampled = "ok",
                                          !.result = result,
                                          !.returned =
                                              UniqueHolders(result, token_address)]
              /\ ReturnFromSource(UniqueHolders(result, token_address))
       \/ \* the request or the answer's parsing raises, a status other than
          \* 200, or an answer that is not "1"/"OK"
          /\ holder_call' = [holder_call EXCEPT !.sampled = "failed",
                                                  !.returned = 0]
          /\ ReturnFromSource(0)
    /\ UNCHANGED <<token_address, price_data, token_info, branch>>
    /\ UNCHANGED analysis_vars
    /\ UNCHANGED other_vars

\* The addresses _fetch_token_data is called with.
Addresses ==
    {ChecksumAddress, LowerCaseAddress, BadChecksumAddress, ShortAddress,
     TinyAddress, <<>>}

----------------------------------------------------------------------------
(* The calls *)

AnalyzeMetrics ==
    /\ metrics_analysis = NotRun
    /\ metrics_analysis' = _analyze_metrics(token_data)
    /\ UNCHANGED <<token_data, text_analysis, risk_assessment>>
    /\ UNCHANGED fetch_vars
    /\ UNCHANGED other_vars

AnalyzeTextData ==
    /\ text_analysis = NotRun
    /\ text_analysis' = _analyze_text_data(token_data)
    /\ UNCHANGED <<token_data, metrics_analysis, risk_assessment>>
    /\ UNCHANGED fetch_vars
    /\ UNCHANGED other_vars

AssessRisk ==
    /\ risk_assessment = NotRun
    /\ risk_assessment' = _assess_risk(token_data)
    /\ UNCHANGED <<token_data, metrics_analysis, text_analysis>>
    /\ UNCHANGED fetch_vars
    /\ UNCHANGED other_vars

NoResults ==
    /\ metrics_analysis = NotRun
    /\ text_analysis = NotRun
    /\ risk_assessment = NotRun

\* No call of _fetch_token_data.
NoFetch ==
    /\ token_address = <<>>
    /\ pc = "idle"
    /\ requests = <<>>
    /\ price_data = NotRun
    /\ token_info = NotRun
    /\ branch = "none"
    /\ fetched = NotRun
    /\ returned_by = "none"
    /\ holder_call = NoHolderCount

----------------------------------------------------------------------------
(* Repeated calls of the classifiers on one TokenAnalyzer *)

\* The number of classifier calls made on the instance.
MaxCalls == 3

\* The snapshots the repeated calls are made with: one without a risk factor,
\* one with four, one on which _assess_risk raises, one with a None amount.
CallSnapshots ==
    {Snapshot(Num(1), Num(2000000), Num(1200000), Num(15000), NoDescriptionAvailable),
     Snapshot(Num(1), Num(50000), Num(100), Num(50), NoDescriptionAvailable),
     Snapshot(Num(1), Num(0), Num(1), Num(0), NoDescriptionAvailable),
     Snapshot(Num(1), Num(2000000), Num(1200000), None, NoDescriptionAvailable)}

\* AssessRiskCall, had risk_factors been a list kept between the calls.
AssessRiskCallKeepingFactors(td, earlier) ==
    LET kept == SelectSeq(earlier, LAMBDA c : c.function = "_assess_risk")
        own  == _assess_risk(td)
    IN  IF kept = <<>>
        THEN own
        ELSE [own EXCEPT !.risk_factors =
                  kept[Len(kept)].result.risk_factors \o own.risk_factors]

\* What a call of _assess_risk returns after the earlier calls: the call reads
\* its argument only; risk_factors and recommendations are new lists in each
\* call, and no attribute of self is read or written.
AssessRiskCall(td, earlier) == _assess_risk(td)

\* What a call of _analyze_metrics returns after the earlier calls: it reads
\* its argument only.
AnalyzeMetricsCall(td, earlier) == _analyze_metrics(td)

CallAssessRisk ==
    /\ Len(calls) < MaxCalls
    /\ \E td \in CallSnapshots :
          calls' = Append(calls, [function   |-> "_assess_risk",
                                  token_data |-> td,
                                  result     |-> AssessRiskCall(td, calls)])
    /\ UNCHANGED <<analysis_vars, fetch_vars, social_vars, database_vars, bot_vars>>

CallAnalyzeMetrics ==
    /\ Len(calls) < MaxCalls
    /\ \E td \in CallSnapshots :
          calls' = Append(calls, [function   |-> "_analyze_metrics",
                                  token_data |-> td,
                                  result     |-> AnalyzeMetricsCall(td, calls)])
    /\ UNCHANGED <<analysis_vars, fetch_vars, social_vars, database_vars, bot_vars>>

NoCalls == calls = <<>>

----------------------------------------------------------------------------
(* modules/social_analyzer.py  SocialAnalyzer *)

\* No activity level yet.
NoLevel == "none"

\* _determine_activity_level with the first boundary not strict.
DetermineActivityLevelInclusive(mentions) ==
    IF mentions >= 1000 THEN "very_high"
    ELSE IF mentions > 500 THEN "high"
    ELSE IF mentions > 100 THEN "medium"
    ELSE IF mentions > 10 THEN "low"
    ELSE "very_low"

_determine_activity_level(mentions) ==
    IF mentions > 1000 THEN "very_high"
    ELSE IF mentions > 500 THEN "high"
    ELSE IF mentions > 100 THEN "medium"
    ELSE IF mentions > 10 THEN "low"
    ELSE "very_low"

\* The largest mention count _determine_activity_level is called with.
MaxMentions == 1100

MentionCounts == 0..MaxMentions

DetermineActivityLevel ==
    /\ activity_level = NoLevel
    /\ activity_level' = _determine_activity_level(total_mentions)
    /\ UNCHANGED <<total_mentions, tweets, sentiment_score>>
    /\ UNCHANGED <<analysis_vars, fetch_vars, call_vars, database_vars, bot_vars>>

\* The number of posts of a Twitter answer.
MaxTweets == 2

\* The retweet, reply and like counts of a post.
EngagementCounts == {0, 33, 34}

\* The public_metrics of the posts.
TweetMetrics ==
    [retweet_count : EngagementCounts, reply_count : EngagementCounts,
     like_count : EngagementCounts]

TweetLists == UNION {[1..n -> TweetMetrics] : n \in 0..MaxTweets}

RECURSIVE TotalEngagement(_)
\* sum(retweet_count + reply_count + like_count for tweet in tweets)
TotalEngagement(posts) ==
    IF posts = <<>>
    THEN 0
    ELSE posts[1].retweet_count + posts[1].reply_count + posts[1].like_count
             + TotalEngagement(Tail(posts))

\* _analyze_twitter_sentiment without the min(..., 1.0).
AnalyzeTwitterSentimentUnclamped(posts) ==
    IF posts = <<>>
    THEN Frac(1, 2)
    ELSE Frac(TotalEngagement(posts), Len(posts) * 100)

_analyze_twitter_sentiment(posts) ==
    IF posts = <<>>
    THEN Frac(1, 2)
    ELSE FracMinOne(Frac(TotalEngagement(posts), Len(posts) * 100))

AnalyzeTwitterSentiment ==
    /\ sentiment_score = NotRun
    /\ sentiment_score' = _analyze_twitter_sentiment(tweets)
    /\ UNCHANGED <<total_mentions, activity_level, tweets>>
    /\ UNCHANGED <<analysis_vars, fetch_vars, call_vars, database_vars, bot_vars>>

\* No call on the SocialAnalyzer.
NoSocial ==
    /\ total_mentions = 0
    /\ activity_level = NoLevel
    /\ tweets = <<>>
    /\ sentiment_score = NotRun

NoAnalyzer == token_data = NotRun /\ NoResults /\ NoFetch

----------------------------------------------------------------------------
(* modules/scam_database.py  ScamDatabase *)

\* The token addresses the database is called with; keys are compared as
\* Python strings, so two spellings of one address are two keys.
StoreAddresses == {"0xA1", "0xa1", "0xB2"}

\* The reports add_scam_report is called with: report_type, severity,
\* description, warning_signs, recommendations, source.
ReportArguments ==
    {[type |-> "rug_pull", severity |-> "high", description |-> "liquidity removed",
      warning_signs |-> <<"owner can mint">>, recommendations |-> <<"do not buy">>,
      source |-> "community"],
     [type |-> "honeypot", severity |-> "critical", description |-> "cannot sell",
      warning_signs |-> <<>>, recommendations |-> <<"avoid", "report">>,
      source |-> "audit"]}

\* The arguments add_suspicious_address is called with.
SuspiciousArguments ==
    {[indicators |-> <<"new deployer">>, details |-> "unverified contract",
      recommendations |-> <<"wait">>]}

\* The empty mapping {} of a fresh database.
NoEntries == [a \in {} |-> TRUE]

\* PutEntry, had an address already in the mapping kept its entry.
PutEntryKeepingFirst(mapping, key, value) ==
    IF key \in DOMAIN mapping
    THEN mapping
    ELSE [a \in DOMAIN mapping \cup {key} |-> IF a = key THEN value ELSE mapping[a]]

\* PutEntry, had the assignment replaced the mapping by the new entry alone.
PutEntryAlone(mapping, key, value) == [a \in {key} |-> value]

\* mapping[key] = value on a dict.
PutEntry(mapping, key, value) ==
    [a \in DOMAIN mapping \cup {key} |-> IF a = key THEN value ELSE mapping[a]]

\* The report add_scam_report builds from its arguments.
BuildReport(args, date) ==
    [type |-> args.type, severity |-> args.severity,
     description |-> args.description, warning_signs |-> args.warning_signs,
     recommendations |-> args.recommendations, source |-> args.source,
     reported_date |-> date]

\* {**report, "added_date": ...}
WithAddedDate(report, date) ==
    [type |-> report.type, severity |-> report.severity,
     description |-> report.description, warning_signs |-> report.warning_signs,
     recommendations |-> report.recommendations, source |-> report.source,
     reported_date |-> report.reported_date, added_date |-> date]

\* The text _format_scam_report renders, as its heading and the values it
\* interpolates, in order.
_format_scam_report(report) ==
    [heading |-> "SCAM ALERT",
     body    |-> <<report.type, report.severity, report.reported_date,
                   report.source, report.description, report.warning_signs,
                   report.recommendations>>]

\* The text _format_suspicious_report renders.
_format_suspicious_report(report) ==
    [heading |-> "SUSPICIOUS ACTIVITY DETECTED",
     body    |-> <<report.indicators, report.details, report.recommendations>>]

\* The reply of check_token for an address in neither mapping.
TokenNotFound ==
    [heading |-> "Token not found in scam database. However, always DYOR!",
     body    |-> <<>>]

\* No reply yet.
NoReply == [heading |-> "none", body |-> <<>>]

\* _check_external_sources: a placeholder that returns None; the set of the
\* reports it returns is empty.
_check_external_sources(address) == {}

\* The content of the file after save_database: the whole scam_data when the
\* write succeeds; the failure of open() is caught and printed, and the file
\* stays as it was.
save_database(tokens, suspicious, file, written) ==
    IF written
    THEN [scam_tokens |-> tokens, suspicious_addresses |-> suspicious]
    ELSE file

\* The number of calls made on the database.
MaxOps == 3

\* A call that has returned: the method, its token_address and what it
\* returned ("True", "False", or "str" for check_token's text).
DbCall(method, address, returned) ==
    [method |-> method, token_address |-> address, returned |-> returned]

\* history: the address's last report becomes the given one.
Recorded(history, address, report) ==
    [a \in StoreAddresses |-> IF a = address THEN {report} ELSE history[a]]

\* add_scam_report, a coroutine without an await: it runs to its return.
AddScamReport ==
    /\ now < MaxOps
    /\ \E address \in StoreAddresses, args \in ReportArguments,
          written \in BOOLEAN :
          LET report == BuildReport(args, now)
              tokens == PutEntry(scam_tokens, address,
                                 WithAddedDate(report, now))
          IN  /\ scam_tokens' = tokens
              /\ db_file' = save_database(tokens, suspicious_addresses, db_file,
                                          written)
              /\ reports_put' = Recorded(reports_put, address, report)
              /\ db_calls' = Append(db_calls,
                                    DbCall("add_scam_report", address, "True"))
    /\ now' = now + 1
    /\ UNCHANGED <<suspicious_addresses, checked, coroutines, running>>
    /\ UNCHANGED <<analysis_vars, fetch_vars, social_vars, call_vars, bot_vars>>

\* add_suspicious_address
AddSuspiciousAddress ==
    /\ now < MaxOps
    /\ \E address \in StoreAddresses, args \in SuspiciousArguments,
          written \in BOOLEAN :
          LET suspicious ==
                  PutEntry(suspicious_addresses, address,
                           [indicators |-> args.indicators, details |-> args.details,
                            recommendations |-> args.recommendations,
                            added_date |-> now])
          IN  /\ suspicious_addresses' = suspicious
              /\ db_file' = save_database(scam_tokens, suspicious, db_file, written)
              /\ db_calls' = Append(db_calls,
                                    DbCall("add_suspicious_address", address, "True"))
    /\ now' = now + 1
    /\ UNCHANGED <<scam_tokens, reports_put, checked, coroutines, running>>
    /\ UNCHANGED <<analysis_vars, fetch_vars, social_vars, call_vars, bot_vars>>

\* check_token
CheckToken ==
    /\ now < MaxOps
    /\ \E address \in StoreAddresses :
          /\ db_calls' = Append(db_calls, DbCall("check_token", address, "str"))
          /\ IF address \in DOMAIN scam_tokens
             THEN /\ checked' = [token_address |-> address,
                                  reply |-> _format_scam_report(scam_tokens[address])]
                  /\ UNCHANGED <<scam_tokens, db_file>>
             ELSE IF address \in DOMAIN suspicious_addresses
             THEN /\ checked' =
                         [token_address |-> address,
                          reply |-> _format_suspicious_report(
                                        suspicious_addresses[address])]
                  /\ UNCHANGED <<scam_tokens, db_file>>
             ELSE IF _check_external_sources(address) # {}
             THEN \E new_report \in _check_external_sources(address),
                     written \in BOOLEAN :
                      /\ scam_tokens' = PutEntry(scam_tokens, address,
                                                 WithAddedDate(new_report, now))
                      /\ db_file' = save_database(scam_tokens', suspicious_addresses,
                                                  db_file, written)
                      /\ checked' = [token_address |-> address,
                                      reply |-> _format_scam_report(new_report)]
             ELSE /\ checked' = [token_address |-> address,
                                  reply |-> TokenNotFound]
                  /\ UNCHANGED <<scam_tokens, db_file>>
    /\ now' = now + 1
    /\ UNCHANGED <<suspicious_addresses, reports_put, coroutines, running>>
    /\ UNCHANGED <<analysis_vars, fetch_vars, social_vars, call_vars, bot_vars>>

\* What self.twitter_client.create_tweet does: it returns a response with
\* the id of the new tweet, returns a response without data, or raises.
TweetOutcomes == {"posted", "no_data", "raised"}

\* response.data['id']: Twitter gives each tweet an id of its own; the model
\* takes the time of the call.
TweetId(date) == date

\* entry.get("twitter_reports", [])
TwitterReports(entry) == Get(entry, "twitter_reports", <<>>)

\* WithTweet, had the new list held the new id alone.
WithTweetAlone(entry, tweet_id) ==
    [k \in DOMAIN entry \cup {"twitter_reports"} |->
        IF k = "twitter_reports" THEN <<tweet_id>> ELSE entry[k]]

\* The entry with entry["twitter_reports"] = entry.get("twitter_reports", [])
\* + [tweet_id].
WithTweet(entry, tweet_id) ==
    [k \in DOMAIN entry \cup {"twitter_reports"} |->
        IF k = "twitter_reports"
        THEN TwitterReports(entry) \o <<tweet_id>>
        ELSE entry[k]]

\* _add_tweet_reference: for an address in scam_tokens the id is appended and
\* the database saved; for any other address nothing happens.
_add_tweet_reference(address, tweet_id, written) ==
    IF address \in DOMAIN scam_tokens
    THEN /\ scam_tokens' = PutEntry(scam_tokens, address,
                                    WithTweet(scam_tokens[address], tweet_id))
         /\ db_file' = save_database(scam_tokens', suspicious_addresses, db_file,
                                     written)
    ELSE UNCHANGED <<scam_tokens, db_file>>

\* The part report_to_twitter, report_suspicious_activity and
\* update_scam_report share: the tweet is posted, and when the response
\* carries data the reference is added and True returned; otherwise, and
\* when create_tweet raises, False is returned.
PostTweet(method, address) ==
    \E outcome \in TweetOutcomes, written \in BOOLEAN :
        IF outcome = "posted"
        THEN /\ _add_tweet_reference(address, TweetId(now), written)
             /\ db_calls' = Append(db_calls, DbCall(method, address, "True"))
        ELSE /\ UNCHANGED <<scam_tokens, db_file>>
             /\ db_calls' = Append(db_calls, DbCall(method, address, "False"))

\* report_to_twitter
ReportToTwitter ==
    /\ now < MaxOps
    /\ \E address \in StoreAddresses : PostTweet("report_to_twitter", address)
    /\ now' = now + 1
    /\ UNCHANGED <<suspicious_addresses, reports_put, checked, coroutines, running>>
    /\ UNCHANGED <<analysis_vars, fetch_vars, social_vars, call_vars, bot_vars>>

\* report_suspicious_activity
ReportSuspiciousActivity ==
    /\ now < MaxOps
    /\ \E address \in StoreAddresses :
           PostTweet("report_suspicious_activity", address)
    /\ now' = now + 1
    /\ UNCHANGED <<suspicious_addresses, reports_put, checked, coroutines, running>>
    /\ UNCHANGED <<analysis_vars, fetch_vars, social_vars, call_vars, bot_vars>>

\* update_scam_report: for an address that is not in scam_tokens it returns
\* False before any tweet.
UpdateScamReport ==
    /\ now < MaxOps
    /\ \E address \in StoreAddresses :
           IF address \notin DOMAIN scam_tokens
           THEN /\ UNCHANGED <<scam_tokens, db_file>>
                /\ db_calls' = Append(db_calls,
                                      DbCall("update_scam_report", address, "False"))
           ELSE PostTweet("update_scam_report", address)
    /\ now' = now + 1
    /\ UNCHANGED <<suspicious_addresses, reports_put, checked, coroutines, running>>
    /\ UNCHANGED <<analysis_vars, fetch_vars, social_vars, call_vars, bot_vars>>

\* The instance after __init__ on a first run: ensure_db_exists has written
\* the empty database and load_database has read it.
FreshDatabase ==
    /\ scam_tokens = NoEntries
    /\ suspicious_addresses = NoEntries
    /\ db_file = [scam_tokens |-> NoEntries, suspicious_addresses |-> NoEntries]
    /\ now = 0
    /\ reports_put = [a \in StoreAddresses |-> {}]
    /\ checked = [token_address |-> "", reply |-> NoReply]
    /\ db_calls = <<>>

\* The event loop runs one coroutine at a time and takes another only when the
\* running one awaits or returns.  add_scam_report, _add_to_database and
\* save_database contain no await, so a call that has started runs to its
\* return statement.  A coroutine is
\*   [pc, address, args, report, written, returned]
\* with report the set of the report built so far and written the outcome of
\* its save_database.

\* The event loop starts a call of add_scam_report.
RunCoroutine ==
    /\ running = 0
    /\ \E i \in DOMAIN coroutines :
          /\ coroutines[i].pc = "created"
          /\ coroutines' = [coroutines EXCEPT ![i].pc = "build"]
          /\ running' = i
    /\ UNCHANGED <<store_vars, reports_put, checked, db_calls>>
    /\ UNCHANGED <<analysis_vars, fetch_vars, social_vars, call_vars, bot_vars>>

\* report = {...}
CoroutineBuildReport ==
    /\ running \in DOMAIN coroutines
    /\ coroutines[running].pc = "build"
    /\ coroutines' =
           [coroutines EXCEPT ![running].pc = "put",
                              ![running].report =
                                  {BuildReport(coroutines[running].args, now)}]
    /\ now' = now + 1
    /\ UNCHANGED <<scam_tokens, suspicious_addresses, db_file, reports_put,
                   checked, running, db_calls>>
    /\ UNCHANGED <<analysis_vars, fetch_vars, social_vars, call_vars, bot_vars>>

\* self.scam_data["scam_tokens"][token_address] = {**report, "added_date": ...}
CoroutineAddToDatabase ==
    /\ running \in DOMAIN coroutines
    /\ coroutines[running].pc = "put"
    /\ \E report \in coroutines[running].report :
          /\ scam_tokens' = PutEntry(scam_tokens, coroutines[running].address,
                                     WithAddedDate(report, now))
          /\ reports_put' = Recorded(reports_put, coroutines[running].address,
                                     report)
    /\ coroutines' = [coroutines EXCEPT ![running].pc = "save"]
    /\ UNCHANGED <<suspicious_addresses, db_file, now, checked, running, db_calls>>
    /\ UNCHANGED <<analysis_vars, fetch_vars, social_vars, call_vars, bot_vars>>

\* self.save_database()
CoroutineSaveDatabase ==
    /\ running \in DOMAIN coroutines
    /\ coroutines[running].pc = "save"
    /\ \E written \in BOOLEAN :
          /\ db_file' = save_database(scam_tokens, suspicious_addresses, db_file,
                                      written)
          /\ coroutines' = [coroutines EXCEPT ![running].pc = "return",
                                              ![running].written = written]
    /\ UNCHANGED <<scam_tokens, suspicious_addresses, now, reports_put, checked,
                   running, db_calls>>
    /\ UNCHANGED <<analysis_vars, fetch_vars, social_vars, call_vars, bot_vars>>

\* return True: the coroutine ends and the event loop is free again.
CoroutineReturn ==
    /\ running \in DOMAIN coroutines
    /\ coroutines[running].pc = "return"
    /\ coroutines' = [coroutines EXCEPT ![running].pc = "done",
                                        ![running].returned = "True"]
    /\ running' = 0
    /\ db_calls' = Append(db_calls, DbCall("add_scam_report",
                                           coroutines[running].address, "True"))
    /\ UNCHANGED <<store_vars, reports_put, checked>>
    /\ UNCHANGED <<analysis_vars, fetch_vars, social_vars, call_vars, bot_vars>>

\* A call of add_scam_report that the event loop has not started yet.
CreatedCoroutine(address, args) ==
    [pc |-> "created", address |-> address, args |-> args, report |-> {},
     written |-> FALSE, returned |-> "none"]

\* The coroutines: none.
NoCoroutines ==
    /\ coroutines = <<>>
    /\ running = 0

NoDatabase == FreshDatabase /\ NoCoroutines

----------------------------------------------------------------------------
(* TokenAnalyzer.analyze *)

\* AnalyzeResult with the snapshot's symbol and name passed on.
AnalyzeResultWithSymbol(td, metrics, text, risk) ==
    [price           |-> Get(td, "price", Num(0)),
     market_cap      |-> Get(td, "market_cap", Num(0)),
     volume_24h      |-> Get(td, "volume_24h", Num(0)),
     holders         |-> Get(td, "holders", Num(0)),
     description     |-> Get(td, "description", <<>>),
     symbol          |-> Get(td, "symbol", <<>>),
     name            |-> Get(td, "name", <<>>),
     metrics         |-> metrics,
     text_analysis   |-> text,
     risk_assessment |-> risk]

\* The mapping analyze returns.
AnalyzeResult(td, metrics, text, risk) ==
    [price           |-> Get(td, "price", Num(0)),
     market_cap      |-> Get(td, "market_cap", Num(0)),
     volume_24h      |-> Get(td, "volume_24h", Num(0)),
     holders         |-> Get(td, "holders", Num(0)),
     description     |-> Get(td, "description", <<>>),
     metrics         |-> metrics,
     text_analysis   |-> text,
     risk_assessment |-> risk]

\* "Error during analysis: "
ErrorDuringAnalysis ==
    <<"E","r","r","o","r"," ","d","u","r","i","n","g"," ","a","n","a","l","y","s","i","s",":"," ">>

\* The mapping of analyze's except branch; message is str(e).  The awaited
\* _fetch_token_data and the three classifiers catch every Exception
\* themselves, so no statement of analyze's try block reaches it.
AnalyzeError(message) ==
    [price           |-> Num(0),
     market_cap      |-> Num(0),
     volume_24h      |-> Num(0),
     holders         |-> Num(0),
     description     |-> ErrorDuringAnalysis \o message,
     metrics         |-> EmptyDict,
     text_analysis   |-> EmptyDict,
     risk_assessment |-> EmptyDict]

\* analyze after its await of _fetch_token_data: the three classifiers run on
\* the fetched snapshot and the combined mapping is returned.
AnalyzeFetched ==
    /\ pc = "done"
    /\ analysis = NotRun
    /\ token_data' = fetched
    /\ metrics_analysis' = _analyze_metrics(fetched)
    /\ text_analysis' = _analyze_text_data(fetched)
    /\ risk_assessment' = _assess_risk(fetched)
    /\ analysis' = AnalyzeResult(fetched, metrics_analysis', text_analysis',
                                 risk_assessment')
    /\ UNCHANGED fetch_vars
    /\ UNCHANGED <<social_vars, call_vars, database_vars>>
    /\ UNCHANGED <<handler, sent, social_calls, pending_action, updates>>

----------------------------------------------------------------------------
(* bot.py  MemecoinAnalyzerBot *)

\* One call of the Telegram API: reply_text, edit_text, edit_message_text or
\* answer; delivered is FALSE when the call raised.
Call(method, text, delivered) ==
    [method |-> method, text |-> text, delivered |-> delivered]

AnalyzingSocial == "Analyzing social media..."

CouldNotFetchTokenData == "Could not fetch token data"

CouldNotDetermineSymbol == "Could not determine token symbol"

CouldNotFetchSocialData == "Could not fetch social media data"

SocialMediaAnalysis == "Social Media Analysis for"

ErrorAnalyzingSocial == "Error analyzing social media"

\* message.edit_text(text) inside analyze_social's try block.  When it raises,
\* the except branch edits the message to the error text; when that raises
\* too, the exception leaves the handler.
EditText(text) ==
    \/ /\ sent' = Append(sent, Call("edit_text", text, TRUE))
       /\ handler' = "returned"
    \/ /\ sent' = sent \o <<Call("edit_text", text, FALSE),
                            Call("edit_text", ErrorAnalyzingSocial, TRUE)>>
       /\ handler' = "returned"
    \/ /\ sent' = sent \o <<Call("edit_text", text, FALSE),
                            Call("edit_text", ErrorAnalyzingSocial, FALSE)>>
       /\ handler' = "raised"

\* /social <address>: analyze_social up to its await of TokenAnalyzer.analyze.
\* context.args[0] is a non-empty word.  When the first reply raises, the
\* except branch reads message, which is not bound yet, and the
\* UnboundLocalError leaves the handler.  For a command that arrives as an
\* edited message update.message is None, so the first reply raises
\* AttributeError before any call is made.
SocialCommand ==
    /\ handler = "idle"
    /\ pc = "idle"
    /\ \E address \in Addresses \ {<<>>} :
           \/ /\ handler' = "raised"
              /\ UNCHANGED <<sent, token_address, pc>>
           \/ /\ sent' = Append(sent, Call("reply_text", AnalyzingSocial, TRUE))
              /\ handler' = "analyze"
              /\ token_address' = address
              /\ pc' = "validate"
           \/ /\ sent' = Append(sent, Call("reply_text", AnalyzingSocial, FALSE))
              /\ handler' = "raised"
              /\ UNCHANGED <<token_address, pc>>
    /\ UNCHANGED <<requests, price_data, token_info, branch, fetched,
                   returned_by, holder_call>>
    /\ UNCHANGED analysis_vars
    /\ UNCHANGED <<social_vars, call_vars, database_vars>>
    /\ UNCHANGED <<analysis, social_calls, pending_action, updates>>

\* analyze_social after TokenAnalyzer.analyze has returned token_data.
SocialAfterAnalyze ==
    /\ handler = "analyze"
    /\ analysis # NotRun
    /\ LET token_symbol == Get(analysis, "symbol", <<>>)
       IN  IF DOMAIN analysis = {}
           THEN EditText(CouldNotFetchTokenData) /\ UNCHANGED social_calls
           ELSE IF token_symbol = <<>>
           THEN EditText(CouldNotDetermineSymbol) /\ UNCHANGED social_calls
           ELSE /\ social_calls' =
                       Append(social_calls, [token_address |-> token_address,
                                             token_symbol  |-> token_symbol])
                /\ EditText(SocialMediaAnalysis)
    /\ UNCHANGED analysis_vars
    /\ UNCHANGED fetch_vars
    /\ UNCHANGED <<social_vars, call_vars, database_vars>>
    /\ UNCHANGED <<analysis, pending_action, updates>>

\* The callback_data of the buttons of start's keyboard.
StartButtons == {"analyze", "metrics", "risk", "social", "contract", "help"}

\* The callback_data of buttons under a report of analyze_token: the action,
\* an underscore and the token address.
ReportButtons ==
    {"metrics_0xdAC17F958D2ee523a2206206994597C13D831ec7",
     "social_0xdAC17F958D2ee523a2206206994597C13D831ec7"}

\* Every query.data button_callback can receive.
Buttons == StartButtons \cup ReportButtons

\* 'pending_action' not in context.user_data
NoAction == "none"

\* How many updates of the user are handled.
MaxUpdates == 3

HelpMessage == "How to Use RugShield Bot"

PleaseEnterAddress == "Please enter the token address:"

PleaseUseStart == "Please use /start to begin or select an option."

PleaseProvideAddress == "Please provide a token address."

\* The handler handle_message awaits for an action, "none" when no branch
\* of its if/elif chain matches.
HandlerOf(action) ==
    CASE action = "analyze"  -> "analyze_token"
      [] action = "metrics"  -> "analyze_metrics"
      [] action = "risk"     -> "analyze_risk"
      [] action = "social"   -> "analyze_social"
      [] action = "contract" -> "analyze_contract"
      [] OTHER               -> "none"

\* One handled update, as the log keeps it: the pending action it found, the
\* handler it awaited and the Telegram calls it made.
Update(kind, data, found, dispatched, made) ==
    [kind |-> kind, data |-> data, found |-> found,
     dispatched |-> dispatched, calls |-> made]

\* user_data after handle_message found an action, with the entry kept.
PendingKept(action) == action

\* del context.user_data['pending_action']
PendingDeleted(action) == NoAction

\* button_callback: query.answer(), then the help text, or the prompt for the
\* address followed by the assignment of pending_action.  A call that raises
\* ends the handler.
ButtonCallback ==
    /\ Len(updates) < MaxUpdates
    /\ \E data \in Buttons :
           \/ /\ updates' = Append(updates,
                     Update("button", data, pending_action, "none",
                            <<Call("answer", "", FALSE)>>))
              /\ UNCHANGED pending_action
           \/ /\ data = "help"
              /\ \E delivered \in BOOLEAN :
                     updates' = Append(updates,
                         Update("button", data, pending_action, "none",
                                <<Call("answer", "", TRUE),
                                  Call("edit_message_text", HelpMessage, delivered)>>))
              /\ UNCHANGED pending_action
           \/ /\ data # "help"
              /\ updates' = Append(updates,
                     Update("button", data, pending_action, "none",
                            <<Call("answer", "", TRUE),
                              Call("edit_message_text", PleaseEnterAddress, FALSE)>>))
              /\ UNCHANGED pending_action
           \/ /\ data # "help"
              /\ updates' = Append(updates,
                     Update("button", data, pending_action, "none",
                            <<Call("answer", "", TRUE),
                              Call("edit_message_text", PleaseEnterAddress, TRUE)>>))
              /\ pending_action' = data
    /\ UNCHANGED <<analysis_vars, fetch_vars, social_vars, call_vars, database_vars>>
    /\ UNCHANGED <<analysis, handler, sent, social_calls>>

\* handle_message, for a text that is no command.  The filter also passes an
\* edited message, whose update.message is None: the first read of
\* update.message raises AttributeError, before the entry is deleted.  A
\* handler awaited from here finds no context.args and asks for an address.
HandleMessage ==
    /\ Len(updates) < MaxUpdates
    /\ \/ /\ updates' = Append(updates,
                 Update("edited_message", "", pending_action, "none", <<>>))
          /\ UNCHANGED pending_action
       \/ /\ pending_action = NoAction
          /\ \E delivered \in BOOLEAN :
                 updates' = Append(updates,
                     Update("message", "", pending_action, "none",
                            <<Call("reply_text", PleaseUseStart, delivered)>>))
          /\ UNCHANGED pending_action
       \/ /\ pending_action # NoAction
          /\ pending_action' = PendingDeleted(pending_action)
          /\ \E delivered \in BOOLEAN :
                 updates' = Append(updates,
                     Update("message", "", pending_action, HandlerOf(pending_action),
                            IF HandlerOf(pending_action) = "none" THEN <<>>
                            ELSE <<Call("reply_text", PleaseProvideAddress, delivered)>>))
    /\ UNCHANGED <<analysis_vars, fetch_vars, social_vars, call_vars, database_vars>>
    /\ UNCHANGED <<analysis, handler, sent, social_calls>>

NoBot ==
    /\ analysis = NotRun
    /\ handler = "idle"
    /\ sent = <<>>
    /\ social_calls = <<>>
    /\ pending_action = NoAction
    /\ updates = <<>>

NoOther == NoSocial /\ NoCalls /\ NoDatabase /\ NoBot

----------------------------------------------------------------------------
(* The specifications *)

\* The metrics classifier and the risk assessor, on every snapshot.
Init == token_data \in TokenSnapshots /\ NoResults /\ NoFetch /\ NoOther

Next == AnalyzeMetrics \/ AssessRisk

Spec == Init /\ [][Next]_vars

\* The text scorer, on every description.
InitText == token_data \in TextSnapshots /\ NoResults /\ NoFetch /\ NoOther

NextText == AnalyzeTextData

SpecText == InitText /\ [][NextText]_vars

\* The two classifiers of amounts, on volumes with hundredths.
InitDecimal == token_data \in DecimalSnapshots /\ NoResults /\ NoFetch /\ NoOther

NextDecimal == AnalyzeMetrics \/ AssessRisk

SpecDecimal == InitDecimal /\ [][NextDecimal]_vars

\* One call of _fetch_token_data, on every address and every upstream answer.
InitFetch ==
    /\ token_address \in Addresses
    /\ pc = "validate"
    /\ requests = <<>>
    /\ price_data = NotRun
    /\ token_info = NotRun
    /\ branch = "none"
    /\ fetched = NotRun
    /\ returned_by = "none"
    /\ holder_call = NoHolderCount
    /\ token_data = NotRun
    /\ NoResults
    /\ NoOther

NextFetch ==
    \/ Validate
    \/ QueryPrice
    \/ QueryInfo
    \/ QueryTokenInfo
    \/ HolderCountDirect
    \/ HolderCountAlternative

SpecFetch == InitFetch /\ [][NextFetch]_vars

\* analyze: the fetch of any address, then the classifiers on its snapshot.
NextAnalyze == NextFetch \/ AnalyzeFetched

SpecAnalyze == InitFetch /\ [][NextAnalyze]_vars

\* The bot after __init__, before any update.
InitBot == token_data = NotRun /\ NoResults /\ NoFetch /\ NoOther

\* One /social command with an address argument.
NextSocialCommand ==
    \/ SocialCommand
    \/ NextFetch
    \/ AnalyzeFetched
    \/ SocialAfterAnalyze

SpecSocialCommand == InitBot /\ [][NextSocialCommand]_vars

\* The button presses and text messages of one user.
NextButtons == ButtonCallback \/ HandleMessage

SpecButtons == InitBot /\ [][NextButtons]_vars

\* The activity classifier, on every mention count.
InitSocial ==
    /\ total_mentions \in MentionCounts
    /\ activity_level = NoLevel
    /\ tweets = <<>>
    /\ sentiment_score = NotRun
    /\ NoAnalyzer
    /\ NoCalls
    /\ NoDatabase
    /\ NoBot

NextSocial == DetermineActivityLevel

SpecSocial == InitSocial /\ [][NextSocial]_vars

\* The engagement score, on every list of posts.
InitSentiment ==
    /\ tweets \in TweetLists
    /\ sentiment_score = NotRun
    /\ total_mentions = 0
    /\ activity_level = NoLevel
    /\ NoAnalyzer
    /\ NoCalls
    /\ NoDatabase
    /\ NoBot

NextSentiment == AnalyzeTwitterSentiment

SpecSentiment == InitSentiment /\ [][NextSentiment]_vars

\* Calls of the two classifiers on one instance, in every order.
InitCalls == NoCalls /\ NoAnalyzer /\ NoSocial /\ NoDatabase /\ NoBot

NextCalls == CallAssessRisk \/ CallAnalyzeMetrics

SpecCalls == InitCalls /\ [][NextCalls]_vars

\* Calls of add_scam_report, add_suspicious_address and check_token on one
\* ScamDatabase, one after the other, in every order.
InitDatabase ==
    FreshDatabase /\ NoCoroutines /\ NoAnalyzer /\ NoSocial /\ NoCalls /\ NoBot

NextDatabase == AddScamReport \/ AddSuspiciousAddress \/ CheckToken

SpecDatabase == InitDatabase /\ [][NextDatabase]_vars

\* Calls of add_scam_report and of the three methods that post a tweet, one
\* after the other, in every order.
NextTweets ==
    \/ AddScamReport
    \/ ReportToTwitter
    \/ ReportSuspiciousActivity
    \/ UpdateScamReport

SpecTweets == InitDatabase /\ [][NextTweets]_vars

\* Two calls of add_scam_report for different addresses, created together on
\* the event loop of one ScamDatabase.
InitCoroutines ==
    /\ FreshDatabase
    /\ coroutines \in
           {<<CreatedCoroutine(a1, r1), CreatedCoroutine(a2, r2)>> :
                a1 \in StoreAddresses, a2 \in StoreAddresses,
                r1 \in ReportArguments, r2 \in ReportArguments}
    /\ coroutines[1].address # coroutines[2].address
    /\ running = 0
    /\ NoAnalyzer /\ NoSocial /\ NoCalls /\ NoBot

NextCoroutines ==
    \/ RunCoroutine
    \/ CoroutineBuildReport
    \/ CoroutineAddToDatabase
    \/ CoroutineSaveDatabase
    \/ CoroutineReturn

\* The event loop runs a coroutine that is ready.
SpecCoroutines ==
    InitCoroutines /\ [][NextCoroutines]_vars /\ WF_vars(NextCoroutines)

----------------------------------------------------------------------------
(* The risk assessor: C1 .. C5 *)

\* The snapshot's three amounts read by _assess_risk are non-negative numbers.
RiskInputsValid(td) ==
    /\ IsNum(td.market_cap) /\ Val(td.market_cap) >= 0
    /\ IsNum(td.volume_24h) /\ Val(td.volume_24h) >= 0
    /\ IsNum(td.holders) /\ Val(td.holders) >= 0

RiskLabels == {"extreme", "high", "medium", "low", "minimal", "unknown"}

IsRiskAssessment(r) ==
    /\ DOMAIN r = {"overall_risk", "risk_factors", "recommendations", "risk_metrics"}
    /\ r.overall_risk \in RiskLabels
    /\ r.risk_factors \in Seq(STRING)
    /\ r.recommendations \in Seq(STRING)

\* An internal fault of the assessment: an amount that is no number, or the
\* division by a zero market cap.
RiskInternalFault(td) ==
    \/ ~ IsNum(td.market_cap)
    \/ ~ IsNum(td.volume_24h)
    \/ ~ IsNum(td.holders)
    \/ (Val(td.volume_24h) > 0 /\ Val(td.market_cap) = 0)

\* C1: _assess_risk is total: on every snapshot (zero amounts and None
\* included) the call returns a RiskAssessment, and whenever an internal fault
\* occurs the result has overall_risk "unknown" and risk_factors exactly
\* ["Error in risk assessment"].
C1_AssessRiskTotal ==
    /\ risk_assessment = NotRun => ENABLED AssessRisk
    /\ risk_assessment # NotRun =>
          /\ IsRiskAssessment(risk_assessment)
          /\ RiskInternalFault(token_data) =>
                /\ risk_assessment.overall_risk = "unknown"
                /\ risk_assessment.risk_factors = <<"Error in risk assessment">>

\* C1's case: the assessment of a snapshot with market cap 0 and a positive
\* volume has returned the error result.
C1_Witness ==
    /\ risk_assessment # NotRun
    /\ RiskInputsValid(token_data)
    /\ Val(token_data.market_cap) = 0
    /\ Val(token_data.volume_24h) > 0
    /\ Val(token_data.holders) = 0
    /\ risk_assessment.overall_risk = "unknown"

\* The four tier rules as the specification states them, in their order.
TierFactors(marketCap, volume24h, holders) ==
    (IF marketCap < 100000 THEN <<"Very low market cap">>
     ELSE IF marketCap < 1000000 THEN <<"Low market cap">>
     ELSE <<>>)
    \o (IF volume24h = 0 THEN <<"No trading volume">>
        ELSE IF volume24h * 100 < marketCap THEN <<"Low trading volume">>
        ELSE <<>>)
    \o (IF holders < 100 THEN <<"Very few holders">>
        ELSE IF holders < 1000 THEN <<"Limited holder base">>
        ELSE <<>>)
    \o (IF volume24h > 0 /\ marketCap > 0
        THEN IF volume24h * 100 < marketCap THEN <<"Low liquidity">>
             ELSE IF volume24h * 10 < marketCap THEN <<"Moderate liquidity">>
             ELSE <<>>
        ELSE <<>>)

\* C2: for every snapshot with non-negative amounts, the returned risk_factors
\* is exactly the sequence of factors of the four tier rules, in their order.
C2_FactorsFollowTierRules ==
    (risk_assessment # NotRun /\ RiskInputsValid(token_data)) =>
        risk_assessment.risk_factors =
            TierFactors(Val(token_data.market_cap), Val(token_data.volume_24h),
                        Val(token_data.holders))

\* The overall risk of a factor count, as the specification derives it.
RiskByCount(n) ==
    IF n >= 4 THEN "extreme"
    ELSE IF n = 3 THEN "high"
    ELSE IF n = 2 THEN "medium"
    ELSE IF n = 1 THEN "low"
    ELSE "minimal"

RiskRank(label) ==
    CASE label = "minimal" -> 0
      [] label = "low"     -> 1
      [] label = "medium"  -> 2
      [] label = "high"    -> 3
      [] label = "extreme" -> 4

\* A few snapshots a result is compared with.
ComparedSnapshots ==
    {Snapshot(Num(1), Num(m), Num(v), Num(h), NoDescriptionAvailable) :
        m \in {50000, 999999, 2000000}, v \in {0, 5000, 1200000}, h \in {50, 15000}}

\* C3 as stated: in every returned RiskAssessment the overall risk is the one
\* of the number of entries of risk_factors.
C3_RiskByFactorCountInEveryResult ==
    risk_assessment # NotRun =>
        risk_assessment.overall_risk = RiskByCount(Len(risk_assessment.risk_factors))

\* C3 as amended: the error result has overall_risk "unknown" and one factor;
\* in every other returned RiskAssessment the overall risk is the one of the
\* number of entries of risk_factors (4 or more extreme, 3 high, 2 medium,
\* 1 low, 0 minimal), and so it does not decrease from a snapshot with fewer
\* factors to one with more.
C3_RiskByFactorCount ==
    risk_assessment # NotRun =>
        IF risk_assessment.overall_risk = "unknown"
        THEN Len(risk_assessment.risk_factors) = 1
        ELSE /\ risk_assessment.overall_risk =
                    RiskByCount(Len(risk_assessment.risk_factors))
             /\ \A s \in ComparedSnapshots :
                    LET other == _assess_risk(s)
                    IN  /\ other.overall_risk # "unknown"
                        /\ Len(other.risk_factors) <= Len(risk_assessment.risk_factors)
                              => RiskRank(other.overall_risk)
                                    <= RiskRank(risk_assessment.overall_risk)
                        /\ Len(other.risk_factors) >= Len(risk_assessment.risk_factors)
                              => RiskRank(other.overall_risk)
                                    >= RiskRank(risk_assessment.overall_risk)

\* C3's case: a result with four factors, which is extreme.
C3_Witness ==
    /\ risk_assessment # NotRun
    /\ Len(risk_assessment.risk_factors) = 4
    /\ risk_assessment.overall_risk = "extreme"

\* C4: for every snapshot with non-negative amounts, risk_metrics has exactly
\* the four boolean entries market_cap_risk, volume_risk, holder_risk and
\* liquidity_risk with the values the specification gives them.
C4_RiskMetricsFourBooleans ==
    (risk_assessment # NotRun /\ RiskInputsValid(token_data)) =>
        LET marketCap == Val(token_data.market_cap)
            volume24h == Val(token_data.volume_24h)
            holders   == Val(token_data.holders)
            m         == risk_assessment.risk_metrics
        IN  /\ DOMAIN m = {"market_cap_risk", "volume_risk", "holder_risk",
                           "liquidity_risk"}
            /\ m.market_cap_risk = (marketCap < 1000000)
            /\ m.volume_risk = (volume24h * 100 < marketCap)
            /\ m.holder_risk = (holders < 1000)
            /\ m.liquidity_risk = (volume24h > 0 /\ volume24h * 10 < marketCap)

\* The recommendation each factor is paired with.
PairedRecommendation(f) ==
    CASE f = "Very low market cap" -> "Extreme caution required"
      [] f = "Low market cap"      -> "High risk investment"
      [] f = "No trading volume"   -> "Avoid trading"
      [] f = "Low trading volume"  -> "Limited liquidity"
      [] f = "Very few holders"    -> "High concentration risk"
      [] f = "Limited holder base" -> "Monitor holder distribution"
      [] f = "Low liquidity"       -> "Check liquidity before trading"
      [] f = "Moderate liquidity"  -> "Monitor liquidity changes"
      [] f = "Error in risk assessment" -> "Unable to generate recommendations"
      [] OTHER -> "no such factor"

\* C5: in every returned RiskAssessment, the error result included,
\* recommendations and risk_factors have the same length and the i-th
\* recommendation is the one paired with the i-th factor.
C5_RecommendationsPaired ==
    risk_assessment # NotRun =>
        /\ Len(risk_assessment.recommendations) = Len(risk_assessment.risk_factors)
        /\ \A i \in 1..Len(risk_assessment.risk_factors) :
               risk_assessment.recommendations[i] =
                   PairedRecommendation(risk_assessment.risk_factors[i])

\* C5's case: a result whose second and third pairs are those of the volume
\* and holder tiers.
C5_Witness ==
    /\ risk_assessment # NotRun
    /\ Len(risk_assessment.risk_factors) = 3
    /\ risk_assessment.risk_factors[2] = "No trading volume"
    /\ risk_assessment.recommendations[2] = "Avoid trading"
    /\ risk_assessment.risk_factors[3] = "Limited holder base"

----------------------------------------------------------------------------
(* The metrics classifier: C6 *)

MetricsInputsValid(td) ==
    /\ RiskInputsValid(td)
    /\ IsNum(td.price) /\ Val(td.price) >= 0

\* The reference classifier of the specification.
ReferenceMetrics(price, marketCap, volume24h, holders) ==
    [priceTrend |->
        IF price > 0 /\ volume24h * 10 > marketCap THEN "bullish"
        ELSE IF price > 0 /\ volume24h * 100 < marketCap THEN "bearish"
        ELSE "neutral",
     volumeLevel |->
        IF volume24h > 0 /\ volume24h * 2 > marketCap THEN "high"
        ELSE IF volume24h > 0 /\ volume24h * 10 > marketCap THEN "medium"
        ELSE "low",
     holderDistribution |->
        IF holders > 10000 THEN "distributed"
        ELSE IF holders > 1000 THEN "moderate"
        ELSE "concentrated",
     liquidityLevel |->
        IF marketCap > 0 /\ volume24h > 0 /\ volume24h * 2 > marketCap THEN "high"
        ELSE IF marketCap > 0 /\ volume24h > 0 /\ volume24h * 10 > marketCap
             THEN "medium"
        ELSE "insufficient"]

\* C6: for every snapshot with non-negative price, market cap, volume and
\* holders, _analyze_metrics returns the four labels of the reference
\* classifier; no division by zero makes it return the label "unknown".
C6_MetricsFollowReference ==
    (metrics_analysis # NotRun /\ MetricsInputsValid(token_data)) =>
        LET ref == ReferenceMetrics(Val(token_data.price), Val(token_data.market_cap),
                                    Val(token_data.volume_24h), Val(token_data.holders))
        IN  /\ metrics_analysis.price_trend = ref.priceTrend
            /\ metrics_analysis.volume_analysis = ref.volumeLevel
            /\ metrics_analysis.holder_distribution = ref.holderDistribution
            /\ metrics_analysis.liquidity_analysis = ref.liquidityLevel
            /\ "unknown" \notin {metrics_analysis.price_trend,
                                 metrics_analysis.volume_analysis,
                                 metrics_analysis.holder_distribution,
                                 metrics_analysis.liquidity_analysis}

\* C6's case: the classification of a snapshot with a positive price, a
\* positive volume and market cap 0, where the division is not reached.
C6_Witness ==
    /\ metrics_analysis # NotRun
    /\ MetricsInputsValid(token_data)
    /\ Val(token_data.price) > 0
    /\ Val(token_data.market_cap) = 0
    /\ Val(token_data.volume_24h) > 0
    /\ metrics_analysis.price_trend = "bullish"
    /\ metrics_analysis.liquidity_analysis = "insufficient"

----------------------------------------------------------------------------
(* The data provider adapter: C7, C8 *)

SnapshotKeys ==
    {"price", "market_cap", "volume_24h", "holders", "description", "symbol", "name"}

Queried(endpoint) == \E i \in DOMAIN requests : requests[i] = endpoint

\* C7: _fetch_token_data never fails: whatever the address and the upstream
\* answers, the call goes on until it returns, and it returns a snapshot
\* holding the seven fields; when neither source yields data (the fallback and
\* the except branch), price, market_cap, volume_24h and holders are all 0.
C7_FetchNeverFails ==
    /\ pc \notin {"idle", "done"} => (ENABLED NextFetch /\ fetched = NotRun)
    /\ pc = "done" =>
          /\ DOMAIN fetched = SnapshotKeys
          /\ returned_by \in {"coingecko", "etherscan", "fallback", "except"}
          /\ returned_by \in {"fallback", "except"} =>
                /\ fetched.price = Num(0)
                /\ fetched.market_cap = Num(0)
                /\ fetched.volume_24h = Num(0)
                /\ fetched.holders = Num(0)

\* C7's case: a call on a well-formed address that queried CoinGecko and both
\* holder endpoints has ended in the except branch.
C7_Witness ==
    /\ pc = "done"
    /\ IsAddress(token_address)
    /\ returned_by = "except"
    /\ Queried("etherscan/tokentx")
    /\ DOMAIN fetched = SnapshotKeys
    /\ fetched.holders = Num(0)

\* C8: for a well-formed address, whenever CoinGecko was queried and did not
\* yield the returned snapshot (a status other than 200, an unlisted address, a
\* request that raises, a malformed payload), Etherscan's tokeninfo has been
\* queried before the call returns.
C8_EtherscanQueriedWheneverCoinGeckoFails ==
    (/\ pc = "done"
     /\ IsAddress(token_address)
     /\ Queried("coingecko/simple/token_price")
     /\ returned_by # "coingecko")
        => Queried("etherscan/tokeninfo")

----------------------------------------------------------------------------
(* The text scorer: C9, C10 *)

\* The number of the terms that occur in the (lower-cased) description.
TermsPresent(terms, lowered) ==
    Cardinality({i \in DOMAIN terms : Contains(terms[i], lowered)})

MinOf(a, b) == IF a < b THEN a ELSE b

\* C9: the credibility score lies in [0, 1]; it is exactly 0.5 when the
\* description is empty, and otherwise (the snapshot's amounts being numbers)
\* the average of min(len / 500, 1), (technical terms present) / 5 and
\* 1 - (hype terms present) / 5.
C9_CredibilityScore ==
    text_analysis # NotRun =>
        LET score       == text_analysis.credibility_score
            description == token_data.description
            lowered     == StrLower(description)
        IN  /\ score[2] > 0
            /\ FracLeq(Frac(0, 1), score)
            /\ FracLeq(score, Frac(1, 1))
            /\ description = <<>> => FracEq(score, Frac(1, 2))
            /\ (description # <<>> /\ RiskInputsValid(token_data)) =>
                   FracEq(score,
                          Frac(MinOf(Len(description), 500)
                                 + 100 * TermsPresent(technical_terms, lowered)
                                 + 100 * (5 - TermsPresent(warning_terms, lowered)),
                               1500))

\* C9's case: a description longer than 500 characters with no technical and
\* no hype term has been scored (1 + 0 + 1) / 3.
C9_Witness ==
    /\ text_analysis # NotRun
    /\ RiskInputsValid(token_data)
    /\ Len(token_data.description) > 500
    /\ FracEq(text_analysis.credibility_score, Frac(2, 3))

\* C10: for a snapshot whose description is the empty string (its amounts
\* being non-negative numbers) the result has
\* sentiment "neutral", credibility_score 0.5 and a description analysis whose
\* length is 0.
C10_EmptyDescription ==
    (/\ text_analysis # NotRun
     /\ token_data.description = <<>>
     /\ RiskInputsValid(token_data)) =>
        /\ text_analysis.sentiment = "neutral"
        /\ FracEq(text_analysis.credibility_score, Frac(1, 2))
        /\ "length" \in DOMAIN text_analysis.description_analysis
        /\ text_analysis.description_analysis.length = 0

----------------------------------------------------------------------------
(* The text scorer: C11, C12 *)

\* C11: for every description, empty or not, and every holders count, the
\* social presence label is high if holders > 1000, medium if holders > 100,
\* and low otherwise.
C11_SocialPresenceByHoldersOnly ==
    (/\ text_analysis # NotRun
     /\ RiskInputsValid(token_data)) =>
        LET holders == Val(token_data.holders)
        IN  text_analysis.social_media_presence =
                IF holders > 1000 THEN "high"
                ELSE IF holders > 100 THEN "medium"
                ELSE "low"

\* C12 as stated: the sentiment compares the number of occurrences of the
\* positive words with the number of occurrences of the negative words, a word
\* that occurs k times counting k.
C12_SentimentByOccurrences ==
    (/\ text_analysis # NotRun
     /\ RiskInputsValid(token_data)) =>
        LET lowered == StrLower(token_data.description)
        IN  text_analysis.sentiment =
                LabelOf(TermOccurrences(positive_words, lowered),
                        TermOccurrences(negative_words, lowered))

\* C12 amended: the sentiment compares the number of positive words that occur
\* in the description with the number of negative words that occur in it, a
\* word counting once however often it occurs.
C12_SentimentByWordsPresent ==
    (/\ text_analysis # NotRun
     /\ RiskInputsValid(token_data)) =>
        LET lowered == StrLower(token_data.description)
        IN  text_analysis.sentiment =
                LabelOf(TermsPresent(positive_words, lowered),
                        TermsPresent(negative_words, lowered))

\* C12's case: a description in which one negative word occurs twice and one
\* positive word once has been scored neutral.
C12_Witness ==
    /\ text_analysis # NotRun
    /\ RiskInputsValid(token_data)
    /\ LET lowered == StrLower(token_data.description)
       IN  /\ TermOccurrences(negative_words, lowered) = 2
           /\ TermsPresent(negative_words, lowered) = 1
           /\ TermOccurrences(positive_words, lowered) = 1
    /\ text_analysis.sentiment = "neutral"

----------------------------------------------------------------------------
(* The activity classifier: C13 *)

\* C13: for every mention count m >= 0 the activity level is very_high if
\* m > 1000, high if m > 500, medium if m > 100, low if m > 10, else very_low;
\* the boundaries are strict: 1000 gives high, 1001 very_high, 500 medium,
\* 100 low, 10 and 0 very_low.
C13_ActivityLevel ==
    activity_level # NoLevel =>
        /\ total_mentions \in 0..10 => activity_level = "very_low"
        /\ total_mentions \in 11..100 => activity_level = "low"
        /\ total_mentions \in 101..500 => activity_level = "medium"
        /\ total_mentions \in 501..1000 => activity_level = "high"
        /\ total_mentions >= 1001 => activity_level = "very_high"
        /\ activity_level \in {"very_low", "low", "medium", "high", "very_high"}

\* C13's case: the count 1000, on the boundary, has been classified high.
C13_Witness ==
    /\ total_mentions = 1000
    /\ activity_level = "high"

----------------------------------------------------------------------------
(* Repeated calls: C14 *)

----------------------------------------------------------------------------
(* The scam-report store: C15 *)

\* C15: the store is a map keyed by token address: after any sequence of
\* add_scam_report, add_suspicious_address and check_token calls, a call
\* check_token(a) replies with the scam alert built from the last report put
\* for a by add_scam_report, and with the not-found message when a was put
\* into neither mapping; the call changes the store neither in memory nor on
\* disk.
C15_StoreIsAMap ==
    [][CheckToken =>
          LET a == checked'.token_address
          IN  /\ reports_put[a] # {} =>
                     \A report \in reports_put[a] :
                         checked'.reply = _format_scam_report(report)
              /\ (reports_put[a] = {} /\ a \notin DOMAIN suspicious_addresses) =>
                     checked'.reply = TokenNotFound
              /\ UNCHANGED <<scam_tokens, suspicious_addresses, db_file>>]_vars

\* C15's case: two reports were put for one address, and check_token replied
\* with the alert of the second.
C15_Witness ==
    /\ now = 3
    /\ checked.reply.heading = "SCAM ALERT"
    /\ checked.reply.body[3] = 1
    /\ \E report \in reports_put[checked.token_address] :
           /\ report.reported_date = 1
           /\ checked.reply = _format_scam_report(report)

----------------------------------------------------------------------------
(* Snapshots without upstream data: C16 *)

\* d is the upper-case form of the character c.
IsUpperOf(c, d) ==
    IF \E i \in DOMAIN LowerCaseLetters : LowerCaseLetters[i] = c
    THEN \E i \in DOMAIN LowerCaseLetters :
             LowerCaseLetters[i] = c /\ UpperCaseLetters[i] = d
    ELSE d = c

\* C16: every snapshot that _fetch_token_data returns without upstream data
\* (the synthetic fallback and the error snapshot) has as symbol the first 6
\* characters of the address in upper case and as name "Token " followed by
\* the first 6 characters as they are; for 0xABCDEF123456 these are "0XABCD"
\* and "Token 0xABCD".
C16_SymbolAndNameFromAddress ==
    (pc = "done" /\ returned_by \in {"fallback", "except"}) =>
        LET n == IF Len(token_address) < 6 THEN Len(token_address) ELSE 6
        IN  /\ Len(fetched.symbol) = n
            /\ \A i \in 1..n : IsUpperOf(token_address[i], fetched.symbol[i])
            /\ Len(fetched.name) = 6 + n
            /\ SubSeq(fetched.name, 1, 6) = <<"T","o","k","e","n"," ">>
            /\ \A i \in 1..n : fetched.name[6 + i] = token_address[i]
            /\ token_address = ShortAddress =>
                   /\ fetched.symbol = <<"0","X","A","B","C","D">>
                   /\ fetched.name =
                          <<"T","o","k","e","n"," ","0","x","A","B","C","D">>

\* C16's case: the call with 0xABCDEF123456 has returned a snapshot without
\* upstream data, with symbol "0XABCD".
C16_Witness ==
    /\ pc = "done"
    /\ token_address = ShortAddress
    /\ returned_by \in {"fallback", "except"}
    /\ fetched.symbol = <<"0","X","A","B","C","D">>

----------------------------------------------------------------------------
(* The worked example: C17 *)

\* The snapshot of the example: market cap 2,000,000, volume 1,200,000 and
\* 15,000 holders, with a price that is a number >= 0.
IsExampleSnapshot(td) ==
    /\ td.market_cap = Num(2000000)
    /\ td.volume_24h = Num(1200000)
    /\ td.holders = Num(15000)
    /\ IsNum(td.price) /\ Val(td.price) >= 0

\* The labels of the example other than the price trend.
ExampleLabels ==
    /\ metrics_analysis # NotRun =>
           /\ metrics_analysis.volume_analysis = "high"
           /\ metrics_analysis.holder_distribution = "distributed"
           /\ metrics_analysis.liquidity_analysis = "high"
    /\ risk_assessment # NotRun =>
           /\ risk_assessment.risk_factors = <<>>
           /\ risk_assessment.overall_risk = "minimal"

\* C17 as stated: for every snapshot with market cap 2,000,000, volume
\* 1,200,000 and 15,000 holders, whatever its price >= 0, _analyze_metrics
\* returns price trend bullish, volume high, holders distributed and liquidity
\* high, and _assess_risk returns no risk factor and overall risk minimal.
C17_ExampleWhateverPrice ==
    IsExampleSnapshot(token_data) =>
        /\ ExampleLabels
        /\ metrics_analysis # NotRun => metrics_analysis.price_trend = "bullish"

\* C17 amended: the same, with price trend bullish when the price is above 0
\* and neutral when the price is 0.
C17_ExampleByPrice ==
    IsExampleSnapshot(token_data) =>
        /\ ExampleLabels
        /\ metrics_analysis # NotRun =>
               metrics_analysis.price_trend =
                   IF Val(token_data.price) > 0 THEN "bullish" ELSE "neutral"

\* C17's case: the example snapshot with a positive price has been classified
\* and assessed.
C17_Witness ==
    /\ IsExampleSnapshot(token_data)
    /\ Val(token_data.price) > 0
    /\ metrics_analysis # NotRun
    /\ risk_assessment # NotRun
    /\ metrics_analysis.price_trend = "bullish"
    /\ risk_assessment.overall_risk = "minimal"

----------------------------------------------------------------------------
(* Concurrent add_scam_report calls: C18 *)

BothReturnedTrue ==
    /\ Len(coroutines) = 2
    /\ \A i \in DOMAIN coroutines : coroutines[i].returned = "True"

\* The mapping holds the report of the coroutine under its address.
HoldsReportOf(mapping, c) ==
    /\ c.address \in DOMAIN mapping
    /\ \A report \in c.report :
           /\ mapping[c.address].type = report.type
           /\ mapping[c.address].reported_date = report.reported_date

HoldsBothReports(mapping) ==
    \A i \in DOMAIN coroutines : HoldsReportOf(mapping, coroutines[i])

\* Both calls have returned True, no write of the file has failed, and the
\* scam_tokens in memory or in the file lacks one of the two reports.
UpdateLost ==
    /\ BothReturnedTrue
    /\ \A i \in DOMAIN coroutines : coroutines[i].written
    /\ \/ ~HoldsBothReports(scam_tokens)
       \/ ~HoldsBothReports(db_file.scam_tokens)

----------------------------------------------------------------------------
(* The order of the sources: C19, C20 *)

\* Source A has answered 200 to the price request, listing the address, and
\* 200 with a JSON body to the info request.
SourceAAnswered == branch = "coingecko"

\* The order of the requests: the price endpoint of source A comes first, the
\* tokeninfo endpoint of source B comes only after it and only when A has not
\* answered both requests, and no endpoint is queried twice.
RequestsInOrder ==
    /\ requests # <<>> => requests[1] = "coingecko/simple/token_price"
    /\ Queried("etherscan/tokeninfo") => ~SourceAAnswered
    /\ \A i, j \in DOMAIN requests : requests[i] = requests[j] => i = j

\* The returned amounts are those of source A's price answer.
ReturnedAmountsOfA ==
    /\ fetched.price = price_data.usd
    /\ fetched.market_cap = price_data.usd_market_cap
    /\ fetched.volume_24h = price_data.usd_24h_vol

\* C19 as stated: the sources are consulted in a fixed order, no endpoint more
\* than once, and whenever A has answered 200 to the price request, listing
\* the address, and 200 to the info request, the returned price, market_cap
\* and volume_24h are A's values.
C19_AnsweredByAReturnsAmountsOfA ==
    /\ RequestsInOrder
    /\ (pc = "done" /\ SourceAAnswered) => ReturnedAmountsOfA

\* The addresses that fail the format check: too short, empty, or in mixed
\* case with a wrong checksum.
MalformedAddresses == {ShortAddress, TinyAddress, <<>>, BadChecksumAddress}

\* C20: for an address that fails the format check, _fetch_token_data issues
\* no request to any upstream source and returns the snapshot whose price,
\* market_cap, volume_24h and holders are 0 and whose description reports the
\* invalid address; the error does not reach the caller.
C20_MalformedAddressNotQueried ==
    token_address \in MalformedAddresses =>
        /\ requests = <<>>
        /\ pc \in {"validate", "done"}
        /\ pc = "validate" => ENABLED Validate
        /\ pc = "done" =>
               /\ returned_by = "except"
               /\ DOMAIN fetched = SnapshotKeys
               /\ fetched.price = Num(0)
               /\ fetched.market_cap = Num(0)
               /\ fetched.volume_24h = Num(0)
               /\ fetched.holders = Num(0)
               /\ fetched.description =
                      <<"E","r","r","o","r"," ","f","e","t","c","h","i","n","g",
                        " ","d","a","t","a",":"," ","I","n","v","a","l","i","d",
                        " ","t","o","k","e","n"," ","a","d","d","r","e","s","s">>

\* C20's case: the call with an address in mixed case and a wrong checksum has
\* returned without a request.
C20_Witness ==
    /\ token_address = BadChecksumAddress
    /\ pc = "done"
    /\ requests = <<>>
    /\ fetched.holders = Num(0)

----------------------------------------------------------------------------
(* The holder count: C21 *)

\* Two spellings of one address: equal up to the case of the letters.
SameAddress(a, b) ==
    /\ Len(a) = Len(b)
    /\ \A i \in 1..Len(a) : LowerChar(a[i]) = LowerChar(b[i])

\* The number of distinct addresses, up to case, that appear as from or to in
\* the transfers, not counting the zero address nor the token's own address.
DistinctParticipants(transfers, token) ==
    LET participants == {transfers[i].from : i \in DOMAIN transfers}
                            \cup {transfers[i].to : i \in DOMAIN transfers}
        counted == {p \in participants :
                        ~SameAddress(p, ZeroAddress) /\ ~SameAddress(p, token)}
    IN  Cardinality({{q \in counted : SameAddress(p, q)} : p \in counted})

\* C21: _get_holder_count returns the direct count when the direct query
\* succeeds, and calls the transfer-sampling fallback only when the direct
\* query fails, at most once; the fallback returns the number of distinct
\* case-normalised participants of the sampled transfers, the zero address and
\* the token's own address not counted, and 0 when the sampling query fails.
C21_HolderCount ==
    /\ holder_call.direct = "ok" =>
           /\ holder_call.returned = holder_call.answer
           /\ holder_call.sampled = "none"
           /\ ~Queried("etherscan/tokentx")
    /\ holder_call.sampled # "none" => holder_call.direct = "failed"
    /\ Queried("etherscan/tokentx") => holder_call.direct = "failed"
    /\ \A i, j \in DOMAIN requests :
           (requests[i] = "etherscan/tokentx" /\ requests[j] = "etherscan/tokentx")
               => i = j
    /\ holder_call.sampled = "ok" =>
           holder_call.returned =
               DistinctParticipants(holder_call.result, token_address)
    /\ holder_call.sampled = "failed" => holder_call.returned = 0
    /\ (pc = "done" /\ Queried("etherscan/tokenholderlist")) =>
           holder_call.returned >= 0

\* C21's case: the direct query failed and the sampled transfers name one
\* holder in two spellings and another holder; the fallback returned 2.
C21_Witness ==
    /\ holder_call.direct = "failed"
    /\ holder_call.sampled = "ok"
    /\ \E i, j \in DOMAIN holder_call.result :
           /\ holder_call.result[i].to = HolderTwoChecksum
           /\ holder_call.result[j].from = HolderTwo
    /\ holder_call.returned = 2

----------------------------------------------------------------------------
(* The engagement score: C22 *)

\* The engagement of the posts, added up post by post.
EngagementOf(posts) ==
    LET RECURSIVE upto(_)
        upto(k) == IF k = 0 THEN 0
                   ELSE upto(k - 1) + posts[k].retweet_count
                            + posts[k].reply_count + posts[k].like_count
    IN  upto(Len(posts))

\* C22: for every list of posts with non-negative counts the score is 0.5
\* when the list is empty and otherwise min(engagement / (posts * 100), 1.0);
\* it lies within [0, 1] and is 1.0 exactly when the engagement per post is at
\* least 100.
C22_TwitterSentiment ==
    sentiment_score # NotRun =>
        LET total == EngagementOf(tweets)
            count == Len(tweets)
        IN  /\ sentiment_score[2] > 0
            /\ FracLeq(Frac(0, 1), sentiment_score)
            /\ FracLeq(sentiment_score, Frac(1, 1))
            /\ count = 0 => FracEq(sentiment_score, Frac(1, 2))
            /\ count > 0 =>
                   /\ total >= 100 * count => FracEq(sentiment_score, Frac(1, 1))
                   /\ total < 100 * count =>
                          FracEq(sentiment_score, Frac(total, 100 * count))
                   /\ FracEq(sentiment_score, Frac(1, 1)) <=> total >= 100 * count

\* C22's case: two posts with more than 100 interactions each on average have
\* been scored 1.0.
C22_Witness ==
    /\ sentiment_score # NotRun
    /\ Len(tweets) = 2
    /\ EngagementOf(tweets) > 200
    /\ FracEq(sentiment_score, Frac(1, 1))

----------------------------------------------------------------------------
(* The error result and the risk metrics: C23 .. C25 *)

\* The factors of a result, as a set.
FactorsOf(r) == {r.risk_factors[i] : i \in DOMAIN r.risk_factors}

MarketCapTierFactors == {"Very low market cap", "Low market cap"}

VolumeTierFactors == {"No trading volume", "Low trading volume"}

HolderTierFactors == {"Very few holders", "Limited holder base"}

LiquidityTierFactors == {"Low liquidity", "Moderate liquidity"}

\* C23: for snapshots with non-negative numeric fields, _assess_risk returns
\* overall_risk "unknown" exactly when market_cap = 0 and volume_24h > 0; for
\* every other such snapshot it returns one of extreme, high, medium, low,
\* minimal.
C23_UnknownExactlyAtZeroMarketCap ==
    (risk_assessment # NotRun /\ RiskInputsValid(token_data)) =>
        /\ risk_assessment.overall_risk = "unknown" <=>
               (Val(token_data.market_cap) = 0 /\ IsPositive(token_data.volume_24h))
        /\ risk_assessment.overall_risk # "unknown" =>
               risk_assessment.overall_risk
                   \in {"extreme", "high", "medium", "low", "minimal"}

\* C23's case: a snapshot with market cap 0, a positive volume and many
\* holders, whose tiers alone would give two factors, has been assessed
\* "unknown".
C23_Witness ==
    /\ risk_assessment # NotRun
    /\ RiskInputsValid(token_data)
    /\ Val(token_data.market_cap) = 0
    /\ IsPositive(token_data.volume_24h)
    /\ Val(token_data.holders) >= 1000
    /\ risk_assessment.overall_risk = "unknown"

C25_LowVolumeIffLowLiquidity ==
    risk_assessment # NotRun =>
        LET factors == FactorsOf(risk_assessment)
        IN  /\ "Low trading volume" \in factors <=> "Low liquidity" \in factors
            /\ "No trading volume" \in factors =>
                   factors \cap LiquidityTierFactors = {}
            /\ Len(risk_assessment.risk_factors) = 1 =>
                   "Low trading volume" \notin factors

----------------------------------------------------------------------------
(* analyze on the snapshots of the other sources: C26 *)

\* C26: when the snapshot analyze used was not returned with CoinGecko's data
\* (it came from Etherscan, the fallback or the except branch), the returned
\* market_cap and volume_24h are 0 and overall_risk is medium or high, and
\* high for the fallback and the except branch.
C26_OtherSourcesMediumOrHigh ==
    (analysis # NotRun /\ returned_by # "coingecko") =>
        /\ analysis.market_cap = Num(0)
        /\ analysis.volume_24h = Num(0)
        /\ analysis.risk_assessment = risk_assessment
        /\ risk_assessment.overall_risk \in {"medium", "high"}
        /\ returned_by \in {"fallback", "except"}
               => risk_assessment.overall_risk = "high"

\* analyze has returned for an Etherscan snapshot with many holders, assessed
\* as medium.
C26_Witness ==
    /\ analysis # NotRun
    /\ returned_by = "etherscan"
    /\ Val(analysis.holders) >= 1000
    /\ analysis.risk_assessment.overall_risk = "medium"

----------------------------------------------------------------------------
(* The /social command: C27 *)

\* The handler has ended, by a return or by an exception that left it.
SocialEnded == handler \in {"returned", "raised"}

\* The last Telegram call the handler made, when it made one.
LastCall == sent[Len(sent)]

\* C27 as stated: SocialAnalyzer.analyze is never called, and the handler
\* always ends with the delivered 'Could not determine token symbol' reply.
C27_AlwaysEndsWithSymbolReply ==
    /\ social_calls = <<>>
    /\ SocialEnded =>
           /\ sent # <<>>
           /\ LastCall = Call("edit_text", CouldNotDetermineSymbol, TRUE)

\* C27: in every execution of analyze_social with an address argument
\* SocialAnalyzer.analyze is never called, because the mapping analyze
\* returns has no symbol and no name key; once analyze has returned, the next
\* Telegram call of the handler is the edit to 'Could not determine token
\* symbol', and the handler ends with that reply unless a Telegram call of
\* the handler raises.
C27_SocialAnalyzerNeverCalled ==
    /\ social_calls = <<>>
    /\ analysis # NotRun =>
           /\ "symbol" \notin DOMAIN analysis
           /\ "name" \notin DOMAIN analysis
    /\ (SocialEnded /\ analysis # NotRun) =>
           /\ Len(sent) >= 2
           /\ sent[2].method = "edit_text"
           /\ sent[2].text = CouldNotDetermineSymbol
    /\ (SocialEnded /\ \A i \in 1..Len(sent) : sent[i].delivered) =>
           \/ /\ handler = "raised"
              /\ sent = <<>>
           \/ /\ handler = "returned"
              /\ LastCall = Call("edit_text", CouldNotDetermineSymbol, TRUE)

\* The handler has returned with the reply for a token whose snapshot had a
\* symbol, and SocialAnalyzer.analyze was not called.
C27_Witness ==
    /\ handler = "returned"
    /\ LastCall = Call("edit_text", CouldNotDetermineSymbol, TRUE)
    /\ fetched.symbol # <<>>
    /\ returned_by = "coingecko"
    /\ social_calls = <<>>

----------------------------------------------------------------------------
(* The pending action of a user: C28 *)

\* user_data's pending action after the i-th update was handled.
PendingAfter(i) ==
    IF i = Len(updates) THEN pending_action ELSE updates[i + 1].found

\* The i-th update is a press of a button other than help whose handler ran
\* to its last statement.
IsEffectivePress(i) ==
    /\ updates[i].kind = "button"
    /\ updates[i].data # "help"
    /\ \A c \in 1..Len(updates[i].calls) : updates[i].calls[c].delivered

\* The i-th update was passed on to an analysis handler.
IsDispatched(i) == updates[i].dispatched # "none"

\* C28: over any sequence of button presses and text messages of one user,
\* pending_action is set only by button_callback for a button other than
\* help; handle_message removes it before dispatching; between two dispatched
\* text messages there is a press of a button other than help; and a text
\* message that finds no pending action dispatches nothing and makes no call
\* but the 'Please use /start' reply.
C28_PendingActionOneShot ==
    /\ \A i \in 1..Len(updates) :
           (PendingAfter(i) # updates[i].found /\ PendingAfter(i) # NoAction) =>
               /\ IsEffectivePress(i)
               /\ PendingAfter(i) = updates[i].data
    /\ \A i \in 1..Len(updates) :
           IsDispatched(i) =>
               /\ updates[i].kind = "message"
               /\ updates[i].found \in Buttons \ {"help"}
               /\ updates[i].dispatched = HandlerOf(updates[i].found)
               /\ PendingAfter(i) = NoAction
    /\ \A i, j \in 1..Len(updates) :
           (i < j /\ IsDispatched(i) /\ IsDispatched(j)) =>
               \E k \in (i + 1)..(j - 1) : IsEffectivePress(k)
    /\ \A j \in 1..Len(updates) :
           IsDispatched(j) => \E k \in 1..(j - 1) : IsEffectivePress(k)
    /\ \A i \in 1..Len(updates) :
           (updates[i].kind # "button" /\ updates[i].found = NoAction) =>
               /\ ~IsDispatched(i)
               /\ PendingAfter(i) = NoAction
               /\ \A c \in 1..Len(updates[i].calls) :
                      /\ updates[i].calls[c].method = "reply_text"
                      /\ updates[i].calls[c].text = PleaseUseStart
               /\ updates[i].kind = "message" => Len(updates[i].calls) = 1

\* A press of a button under a report leaves a pending action that the next
\* text message removes without any handler being awaited.
C28_WitnessReportButton ==
    /\ Len(updates) = 2
    /\ IsEffectivePress(1)
    /\ updates[1].data \in ReportButtons
    /\ updates[2].kind = "message"
    /\ updates[2].found = updates[1].data
    /\ ~IsDispatched(2)
    /\ pending_action = NoAction

\* One press of a button other than help, a text message dispatched to the
\* button's handler, and a second text message answered by 'Please use
\* /start'.
C28_Witness ==
    /\ Len(updates) = 3
    /\ IsEffectivePress(1)
    /\ updates[1].data = "risk"
    /\ updates[2].kind = "message"
    /\ updates[2].dispatched = "analyze_risk"
    /\ updates[3].kind = "message"
    /\ updates[3].found = NoAction
    /\ ~IsDispatched(3)
    /\ updates[3].calls = <<Call("reply_text", PleaseUseStart, TRUE)>>
    /\ pending_action = NoAction
----------------------------------------------------------------------------
(* Tweet references and a second report: C29 *)

\* The call that has just returned.
LastDbCall == db_calls[Len(db_calls)]

\* The call that has just returned is add_scam_report for the address, with
\* True.
AddReturnedTrue(address) ==
    /\ db_calls # <<>>
    /\ LastDbCall = DbCall("add_scam_report", address, "True")

\* s is t or t with elements appended.
IsPrefix(t, s) == Len(t) <= Len(s) /\ \A i \in 1..Len(t) : s[i] = t[i]

\* The entry as it is but for its twitter_reports.
WithoutTweets(entry) == [k \in DOMAIN entry \ {"twitter_reports"} |-> entry[k]]

\* C29: a call of add_scam_report that returns True leaves an entry without
\* twitter_reports, whatever references the address's entry held before; any
\* other call keeps the entry and changes its twitter_reports by appending
\* only.
C29_SecondReportDropsTweets ==
    [][\A a \in StoreAddresses :
          /\ AddReturnedTrue(a)' =>
                 /\ a \in DOMAIN scam_tokens'
                 /\ "twitter_reports" \notin DOMAIN scam_tokens'[a]
          /\ (~AddReturnedTrue(a)' /\ a \in DOMAIN scam_tokens) =>
                 /\ a \in DOMAIN scam_tokens'
                 /\ WithoutTweets(scam_tokens'[a]) = WithoutTweets(scam_tokens[a])
                 /\ IsPrefix(TwitterReports(scam_tokens[a]),
                             TwitterReports(scam_tokens'[a]))
          /\ a \notin DOMAIN scam_tokens' => a \notin DOMAIN scam_tokens]_vars

\* A first report, a tweet whose reference was recorded, and a second report
\* for the same address, after which the entry has no twitter_reports; the
\* file, whose last save failed, still shows the reference.
C29_Witness ==
    /\ Len(db_calls) = 3
    /\ \E a \in StoreAddresses :
           /\ db_calls[1] = DbCall("add_scam_report", a, "True")
           /\ db_calls[2] = DbCall("report_to_twitter", a, "True")
           /\ db_calls[3] = DbCall("add_scam_report", a, "True")
           /\ "twitter_reports" \notin DOMAIN scam_tokens[a]
           /\ a \in DOMAIN db_file.scam_tokens
           /\ TwitterReports(db_file.scam_tokens[a]) = <<TweetId(1)>>
====
